---- MODULE Spec2Model ----
(***************************************************************************)
(* Adaptive polling of a CGM feed: the interval estimators and predictors  *)
(* of SmartPollingAnalyzer, and the timer state machines of the hooks      *)
(* useSmartPolling, useIntelligentPolling and useCGMData.                  *)
(*                                                                         *)
(* Times are milliseconds, as in the source (Date.getTime / Date.now).     *)
(* Every gap between two samples of the model is a whole number of         *)
(* minutes, so the sum of two gaps is even and the JavaScript division by  *)
(* 2 of the medians is exact.                                              *)
(***************************************************************************)
EXTENDS Integers, Sequences, FiniteSets

VARIABLES now, hook, ev, sp, ip, cgm, fn, lm, cd

vars == <<now, hook, ev, sp, ip, cgm, fn, lm, cd>>

----------------------------------------------------------------------------
(* Units and program constants *)

Second == 1000
Minute == 60000
Null == -1

DEFAULT_CGM_INTERVAL == 5 * Minute
INTENSIVE_POLLING == 45 * Second
NORMAL_POLLING == 5 * Minute
INTENSIVE_WINDOW == 2 * Minute
fallbackIntervalMs == 5 * Minute
refreshInterval == 5 * Minute
\* mutation of BufferMs: the data source's publication latency is forgotten
NoBufferMs == 0 * Second
BufferMs == 30 * Second

(* Bounds of the model *)
HorizonSeconds == 50
MaxRichGaps == 3
MaxPoorGaps == 5
MaxLongGaps == 11
MaxInFlight == 2
MaxConfGaps == 3
MaxRetryLimit == 3

StartTime == 10 * Minute
MaxTime == StartTime + HorizonSeconds * Second

----------------------------------------------------------------------------
(* Arithmetic and sequence helpers *)

Max(a, b) == IF a >= b THEN a ELSE b
Min(a, b) == IF a <= b THEN a ELSE b
Abs(a) == IF a >= 0 THEN a ELSE 0 - a

\* Math.ceil(a / b) for a >= 0, b > 0
CeilDiv(a, b) == (a + b - 1) \div b

\* Math.round(num / den) for num >= 0, den > 0 (halves round up)
RoundDiv(num, den) == (2 * num + den) \div (2 * den)

RECURSIVE SumSeq(_)
SumSeq(s) == IF s = <<>> THEN 0 ELSE Head(s) + SumSeq(Tail(s))

RECURSIVE InsertAsc(_, _)
InsertAsc(x, s) ==
  IF s = <<>> THEN <<x>>
  ELSE IF x < Head(s) THEN <<x>> \o s
  ELSE <<Head(s)>> \o InsertAsc(x, Tail(s))

\* Array.prototype.sort((a, b) => a - b) on numbers
RECURSIVE SortAsc(_)
SortAsc(s) == IF s = <<>> THEN <<>> ELSE InsertAsc(Head(s), SortAsc(Tail(s)))

Reverse(s) == [i \in 1..Len(s) |-> s[Len(s) + 1 - i]]

\* mutation of InBand: every gap is taken
AnyGap(g, lo, hi) == TRUE

\* mutation of SortDesc: the caller's order is trusted
NoSort(s) == s

\* [...readings].sort((a, b) => time(b) - time(a)): newest first
SortDesc(s) == Reverse(SortAsc(s))

\* the caller's array after a call of an estimator or predictor: the sort acts
\* on the copy [...readings]
CallerArrayAfter(readings) == readings

\* the first k gaps of a newest-first sequence: sorted[i] - sorted[i+1]
GapsDesc(sorted, k) == [i \in 1..k |-> sorted[i] - sorted[i + 1]]

\* mutation of InBand: only the lower limit is looked at
AboveLow(g, lo, hi) == g >= lo

InBand(g, lo, hi) == g >= lo /\ g <= hi

\* mutation of MedianOfSorted: the upper middle value, whatever the parity
UpperMiddle(ivs) == ivs[Len(ivs) \div 2 + 1]

\* intervals.sort(); mid = floor(n/2); even ? (iv[mid-1] + iv[mid]) / 2 : iv[mid]
MedianOfSorted(ivs) ==
  LET n == Len(ivs)
      mid == n \div 2
  IN IF n % 2 = 0 THEN (ivs[mid] + ivs[mid + 1]) \div 2 ELSE ivs[mid + 1]

----------------------------------------------------------------------------
(* SmartPollingAnalyzer, first version (utils/smartPolling.ts 14-174) *)

\* mutation of getAverageInterval: the short history gets the polling period
\* of the intensive mode instead of the default interval
getAverageIntervalShortPoll(readings) ==
  IF Len(readings) < 2 THEN INTENSIVE_POLLING
  ELSE LET sorted == SortDesc(readings)
           all == GapsDesc(sorted, Min(5, Len(sorted) - 1))
           intervals == SelectSeq(all, LAMBDA g : InBand(g, 3 * Minute, 8 * Minute))
       IN IF Len(intervals) = 0 THEN DEFAULT_CGM_INTERVAL
          ELSE MedianOfSorted(SortAsc(intervals))

getAverageInterval(readings) ==
  IF Len(readings) < 2 THEN DEFAULT_CGM_INTERVAL
  ELSE LET sorted == SortDesc(readings)
           all == GapsDesc(sorted, Min(5, Len(sorted) - 1))
           intervals == SelectSeq(all, LAMBDA g : InBand(g, 3 * Minute, 8 * Minute))
       IN IF Len(intervals) = 0 THEN DEFAULT_CGM_INTERVAL
          ELSE MedianOfSorted(SortAsc(intervals))

\* the time of the prediction; Null when there is no reading
predictNextReading(readings) ==
  IF Len(readings) = 0 THEN Null
  ELSE SortDesc(readings)[1] + getAverageInterval(readings)

(* SmartPollingAnalyzer, second version (utils/smartPolling.ts 188-371) *)

calculateAverageInterval(readings) ==
  IF Len(readings) < 2 THEN DEFAULT_CGM_INTERVAL
  ELSE LET sortedReadings == SortDesc(readings)
           intervalsToCheck == Min(10, Len(sortedReadings) - 1)
           all == GapsDesc(sortedReadings, intervalsToCheck)
           intervals == SelectSeq(all, LAMBDA g : InBand(g, 3 * Minute, 8 * Minute))
       IN IF Len(intervals) = 0 THEN DEFAULT_CGM_INTERVAL
          ELSE MedianOfSorted(SortAsc(intervals))

predictNextReading2(readings) ==
  IF Len(readings) = 0 THEN Null
  ELSE SortDesc(readings)[1] + calculateAverageInterval(readings)

----------------------------------------------------------------------------
(* SmartPollingAnalyzer.calculateConfidence.  A confidence is held in       *)
(* hundredths, rounded down; NaN is the not-a-number of JavaScript.         *)

NaN == Null - 1

\* Math.max(0.2, Math.min(1, x)), x in hundredths
ClampConfidence(h) == Max(20, Min(100, h))

\* the confidence for the gaps g (whole minutes, not negative):
\* 1 - stdDev / mean, clamped.  With k gaps of sum S and sum of squares Q,
\* (stdDev / mean)^2 = (k Q - S^2) / S^2, so that 1 - stdDev / mean >= h / 100
\* iff h > 100 or (100 - h)^2 S^2 >= 10000 (k Q - S^2); the unclamped value is
\* at most 1 and, under 0, clamps to the lower bound as 0 does.  A mean of 0
\* makes 0 / 0, which is NaN, and Math.min and Math.max return NaN for it.
ConfidenceOfGaps(g) ==
  LET k == Len(g)
      S == SumSeq(g)
      Q == SumSeq([i \in 1..k |-> g[i] * g[i]])
      hs == {h \in 0..100 : (100 - h) * (100 - h) * S * S >= 10000 * (k * Q - S * S)}
  IN IF S = 0 THEN NaN
     ELSE ClampConfidence(IF hs = {} THEN 0 ELSE CHOOSE h \in hs : \A x \in hs : x <= h)

\* mutation of calculateConfidence: only the two newest gaps are looked at
calculateConfidenceOfTwo(readings) ==
  IF Len(readings) < 3 THEN 50
  ELSE LET sorted == SortDesc(readings)
           k == Min(2, Len(sorted) - 1)
       IN ConfidenceOfGaps([i \in 1..k |-> GapsDesc(sorted, k)[i] \div Minute])

\* first version, lines 85-110
calculateConfidence(readings) ==
  IF Len(readings) < 3 THEN 50
  ELSE LET sorted == SortDesc(readings)
           k == Min(5, Len(sorted) - 1)
       IN ConfidenceOfGaps([i \in 1..k |-> GapsDesc(sorted, k)[i] \div Minute])

\* second version, lines 270-298
calculateConfidence2(readings) ==
  IF Len(readings) < 3 THEN 50
  ELSE LET sortedReadings == SortDesc(readings)
           k == Min(5, Len(sortedReadings) - 1)
       IN ConfidenceOfGaps([i \in 1..k |-> GapsDesc(sortedReadings, k)[i] \div Minute])

\* the confidence returned by predictNextReading (lines 62-80 and 238-265)
predictConfidence(readings) ==
  IF Len(readings) = 0 THEN 0 ELSE calculateConfidence(readings)

predictConfidence2(readings) ==
  IF Len(readings) = 0 THEN 0 ELSE calculateConfidence2(readings)

----------------------------------------------------------------------------
(* The estimators of the two polling hooks *)

\* useSmartPolling.calculateReadingInterval: rounded mean of the 4-6 minute gaps
\* among the 10 newest readings
SP_calculateReadingInterval(readings) ==
  IF Len(readings) < 2 THEN fallbackIntervalMs
  ELSE LET sortedReadings == SortDesc(readings)
           recent == SubSeq(sortedReadings, 1, Min(10, Len(sortedReadings)))
           all == GapsDesc(recent, Len(recent) - 1)
           intervals == SelectSeq(all, LAMBDA g : InBand(g, 4 * Minute, 6 * Minute))
       IN IF Len(intervals) = 0 THEN fallbackIntervalMs
          ELSE RoundDiv(SumSeq(intervals), Len(intervals))

\* useIntelligentPolling.calculateReadingInterval: rounded median of all the
\* 2-10 minute gaps
IP_calculateReadingInterval(readings) ==
  IF Len(readings) < 2 THEN fallbackIntervalMs
  ELSE LET sortedReadings == SortAsc(readings)
           all == [i \in 1..(Len(sortedReadings) - 1) |->
                     sortedReadings[i + 1] - sortedReadings[i]]
           intervals == SortAsc(SelectSeq(all, LAMBDA g : InBand(g, 2 * Minute, 10 * Minute)))
           n == Len(intervals)
       IN IF n = 0 THEN fallbackIntervalMs
          ELSE IF n % 2 = 0
               THEN RoundDiv(intervals[n \div 2] + intervals[n \div 2 + 1], 2)
               ELSE intervals[n \div 2 + 1]

\* the while loop of calculateNextExpectedReading: the first t + k*intervalMs > now
RECURSIVE AdvancePast(_, _, _)
AdvancePast(t, intervalMs, n) ==
  IF t <= n THEN AdvancePast(t + intervalMs, intervalMs, n) ELSE t

\* useIntelligentPolling.calculateNextExpectedReading
calculateNextExpectedReading(latestTime, intervalMs, n) ==
  IF n - latestTime < 60 * Second THEN latestTime + intervalMs
  ELSE AdvancePast(latestTime, intervalMs, n)

\* mutation of SP_correctedTarget: no staleness correction
SP_uncorrectedTarget(targetTime, estimatedInterval, n) == targetTime

\* useSmartPolling.scheduleNextUpdate, lines 93-103: the target after the
\* staleness correction
SP_correctedTarget(targetTime, estimatedInterval, n) ==
  LET msUntilUpdate == targetTime - n
  IN IF msUntilUpdate < 0
     THEN targetTime + CeilDiv(0 - msUntilUpdate, estimatedInterval) * estimatedInterval
     ELSE targetTime

----------------------------------------------------------------------------
(* Inputs of the pure functions: histories built from gap sequences *)

RichGaps ==
  {0, 2 * Minute, 3 * Minute, 4 * Minute, 5 * Minute, 8 * Minute, 9 * Minute}
PoorGaps == {3 * Minute, 5 * Minute, 9 * Minute}
LongGaps == {4 * Minute, 9 * Minute}

\* n gaps of 5 minutes, but for the p-th, an outage of 40 minutes
OutlierGaps(n, p) == [i \in 1..n |-> IF i = p THEN 40 * Minute ELSE 5 * Minute]

GapSeqs ==
  UNION {[1..n -> RichGaps] : n \in 0..MaxRichGaps}
    \cup UNION {[1..n -> PoorGaps] : n \in (MaxRichGaps + 1)..MaxPoorGaps}
    \cup UNION {[1..n -> LongGaps] : n \in (MaxPoorGaps + 1)..MaxLongGaps}
    \cup {OutlierGaps(n, p) : n \in 1..MaxLongGaps, p \in 1..MaxLongGaps}

\* the timestamps, oldest first, of a history with the gaps gs
FromGaps(gs) == [i \in 1..(Len(gs) + 1) |-> SumSeq(SubSeq(gs, 1, i - 1))]

Rotate(s) == IF s = <<>> THEN s ELSE Tail(s) \o <<Head(s)>>

\* the caller may supply the samples oldest first, newest first or unordered
InputHistories ==
  {<<>>} \cup {FromGaps(gs) : gs \in GapSeqs}
         \cup {Reverse(FromGaps(gs)) : gs \in GapSeqs}
         \cup {Rotate(FromGaps(gs)) : gs \in GapSeqs}

NowOffsets == {0, 1 * Minute, 5 * Minute, 12 * Minute, 20 * Minute}

Latest(readings) == SortDesc(readings)[1]

\* no strategy computed yet (pollingStrategy state starts as null)
NoStrategy == [mode |-> "none", nextInterval |-> 0, nextExpectedReading |-> Null]

FnIdle ==
  [stage |-> "idle", readings |-> <<>>, readingsAfter |-> <<>>, at |-> Null,
   avg1 |-> Null, avg2 |-> Null, spIv |-> Null, ipIv |-> Null,
   pred1 |-> Null, pred2 |-> Null, spTarget |-> Null, ipNext |-> Null,
   conf1 |-> Null, conf2 |-> Null, strat1 |-> NoStrategy, strat2 |-> NoStrategy]

----------------------------------------------------------------------------
(* Timers of the JavaScript runtime.  A hook record holds the timers it has *)
(* armed and that have neither fired nor been cleared (timeouts: setTimeout,*)
(* intervals: setInterval) next to the refs that name them by id.           *)

\* F applied to the value of x, which is evaluated once
With(x, F(_)) == CHOOSE r \in {F(y) : y \in {x}} : TRUE

FreshId(used) == CHOOSE i \in 1..(Cardinality(used) + 1) : i \notin used

\* the histories the data layer can deliver to a hook
Feed ==
  { <<>>,
    <<10 * Minute>>,
    <<0, 5 * Minute>>,
    <<0, 5 * Minute, 10 * Minute>>,
    <<1 * Minute, 5 * Minute, 10 * Minute>>,
    <<0, 10 * Minute>>,
    <<5 * Second, 5 * Minute + 5 * Second>>,
    <<90 * Second, 330 * Second>>,
    <<5 * Minute, 10 * Minute, 15 * Minute>> }

Available(h, n) == IF h = <<>> THEN TRUE ELSE Latest(h) <= n

\* the responses of api.cgm.getCGMData
Responses == {<<>>, <<0, 5 * Minute>>, <<0, 5 * Minute, 10 * Minute>>}

CurrentTimes == {5 * Minute, 10 * Minute}

----------------------------------------------------------------------------
(* useSmartPolling (hooks/useSmartPolling.ts) *)

\* the hook before it is mounted: useState / useRef initial values
SP_Initial ==
  [mounted |-> FALSE, historicalData |-> <<>>, currentReading |-> Null,
   estimatedInterval |-> fallbackIntervalMs, nextExpectedRef |-> Null,
   nextExpectedReading |-> Null, timeUntilNext |-> 0, lastUpdate |-> Null,
   timeoutRef |-> Null, countdownRef |-> Null, timeouts |-> {}, intervals |-> {}]

\* mutation of SP_clearTimers: the countdown is left running
SP_clearPrimaryOnly(s0) ==
  With(s0, LAMBDA s :
    [s EXCEPT !.timeouts = IF s.timeoutRef # Null
                           THEN {t \in @ : t.id # s.timeoutRef} ELSE @,
              !.timeoutRef = Null])

SP_clearTimers(s0) ==
  With(s0, LAMBDA s :
    [s EXCEPT !.timeouts = IF s.timeoutRef # Null
                           THEN {t \in @ : t.id # s.timeoutRef} ELSE @,
              !.timeoutRef = Null,
              !.intervals = IF s.countdownRef # Null
                            THEN {t \in @ : t.id # s.countdownRef} ELSE @,
              !.countdownRef = Null])

\* estimatedInterval is the value the callback closed over
SP_scheduleNextUpdate(s0, estimatedInterval, n) ==
  With(SP_clearTimers(s0), LAMBDA c :
    IF c.nextExpectedRef = Null THEN c
    ELSE LET newTarget == SP_correctedTarget(c.nextExpectedRef, estimatedInterval, n)
             msUntilUpdate == (newTarget - n) + BufferMs
             tid == FreshId({t.id : t \in c.timeouts})
             cid == FreshId({t.id : t \in c.intervals})
         IN [c EXCEPT !.nextExpectedRef = newTarget,
                      !.timeoutRef = tid,
                      !.timeouts = @ \cup {[id |-> tid, due |-> n + msUntilUpdate,
                                            target |-> newTarget, iv |-> estimatedInterval,
                                            live |-> TRUE]},
                      !.timeUntilNext = msUntilUpdate,
                      !.countdownRef = cid,
                      !.intervals = @ \cup {[id |-> cid, due |-> n + Second]}])

\* performUpdate with an onUpdate that returns
SP_performUpdate(s, n) == [s EXCEPT !.lastUpdate = n]

\* the setTimeout callback of scheduleNextUpdate, lines 111-121, for the fired
\* timer t; an onUpdate that throws ends the callback at line 112
SP_timerCallback(s0, t, threw, n) ==
  IF threw THEN s0
  ELSE With(SP_performUpdate(s0, n), LAMBDA u :
         SP_scheduleNextUpdate(
           [u EXCEPT !.nextExpectedRef = u.nextExpectedRef + t.iv,
                     !.nextExpectedReading = u.nextExpectedRef + t.iv],
           t.iv, n))

\* The effects of one render.  iv is the estimatedInterval of the render (what
\* the effects and scheduleNextUpdate close over); f says which dependencies
\* changed.  s.estimatedInterval holds the value queued by setEstimatedInterval.

\* cleanup of the start effect, line 177
SP_startCleanup(s, f) ==
  IF (f.onUpdate \/ f.iv) /\ ~f.mount THEN SP_clearTimers(s) ELSE s

\* effect of lines 141-158
SP_dataEffect(s0, f) ==
  With(s0, LAMBDA s :
    IF (f.mount \/ f.hist) /\ Len(s.historicalData) > 0
    THEN LET newInterval == SP_calculateReadingInterval(s.historicalData)
             nextTime == Latest(s.historicalData) + newInterval
         IN [s EXCEPT !.estimatedInterval = newInterval,
                      !.nextExpectedRef = nextTime,
                      !.nextExpectedReading = nextTime]
    ELSE s)

\* effect of lines 161-168
SP_currentEffect(s0, iv, f) ==
  With(s0, LAMBDA s :
    IF (f.mount \/ f.cur \/ f.iv) /\ s.currentReading # Null
    THEN [s EXCEPT !.nextExpectedRef = s.currentReading + iv,
                   !.nextExpectedReading = s.currentReading + iv]
    ELSE s)

\* effect of lines 171-178
SP_startEffect(s0, iv, f, n) ==
  With(s0, LAMBDA s :
    IF (f.mount \/ f.onUpdate \/ f.iv) /\ s.nextExpectedRef # Null
    THEN SP_scheduleNextUpdate(s, iv, n)
    ELSE s)

SP_Commit(s, iv, f, n) ==
  SP_startEffect(SP_currentEffect(SP_dataEffect(SP_startCleanup(s, f), f), iv, f), iv, f, n)

NoChange == [mount |-> FALSE, hist |-> FALSE, cur |-> FALSE, iv |-> FALSE,
             next |-> FALSE, live |-> FALSE, onUpdate |-> FALSE]

\* renders until no state update is pending: a changed estimatedInterval makes a
\* second render whose effects depend on it
SP_Settle(s0, f, n) ==
  With(s0, LAMBDA s :
    With(SP_Commit(s, s.estimatedInterval, f, n), LAMBDA r :
      IF r.estimatedInterval # s.estimatedInterval
      THEN SP_Commit(r, r.estimatedInterval, [NoChange EXCEPT !.iv = TRUE], n)
      ELSE r))

SP_Mount(h, c) ==
  /\ hook = "SP" /\ ~sp.mounted
  /\ Available(h, now) /\ c <= now
  /\ sp' = SP_Settle([SP_Initial EXCEPT !.mounted = TRUE, !.historicalData = h,
                                         !.currentReading = c],
                     [NoChange EXCEPT !.mount = TRUE], now)
  /\ ev' = "mount"
  /\ UNCHANGED <<now, hook, ip, cgm, fn, lm, cd>>

SP_HistoricalData(h) ==
  /\ hook = "SP" /\ sp.mounted
  /\ Available(h, now)
  /\ sp' = SP_Settle([sp EXCEPT !.historicalData = h], [NoChange EXCEPT !.hist = TRUE], now)
  /\ ev' = "hist"
  /\ UNCHANGED <<now, hook, ip, cgm, fn, lm, cd>>

SP_CurrentReading(c) ==
  /\ hook = "SP" /\ sp.mounted
  /\ c <= now /\ c # sp.currentReading
  /\ sp' = SP_Settle([sp EXCEPT !.currentReading = c], [NoChange EXCEPT !.cur = TRUE], now)
  /\ ev' = "cur"
  /\ UNCHANGED <<now, hook, ip, cgm, fn, lm, cd>>

\* the parent passes a new onUpdate function (App: handleLiveUpdate is rebuilt
\* when the time range changes)
SP_OnUpdateChange ==
  /\ hook = "SP" /\ sp.mounted
  /\ sp' = SP_Settle(sp, [NoChange EXCEPT !.onUpdate = TRUE], now)
  /\ ev' = "onUpdate"
  /\ UNCHANGED <<now, hook, ip, cgm, fn, lm, cd>>

SP_TimerFire ==
  /\ hook = "SP"
  /\ \E t \in sp.timeouts : \E threw \in BOOLEAN :
       /\ t.due <= now
       /\ sp' = SP_timerCallback([sp EXCEPT !.timeouts = @ \ {t}], t, threw, now)
       /\ ev' = IF threw THEN "fireThrow" ELSE "fire"
  /\ UNCHANGED <<now, hook, ip, cgm, fn, lm, cd>>

\* the setInterval callback of lines 127-137: the interval stays armed unless
\* the new value is 0
SP_countdownCallback(s0, t) ==
  With(s0, LAMBDA s :
    LET newValue == Max(0, s.timeUntilNext - Second)
    IN IF newValue = 0
       THEN [s EXCEPT !.timeUntilNext = newValue,
                      !.intervals = {x \in (@ \ {t}) \cup {[t EXCEPT !.due = @ + Second]} :
                                       x.id # s.countdownRef},
                      !.countdownRef = Null]
       ELSE [s EXCEPT !.timeUntilNext = newValue,
                      !.intervals = (@ \ {t}) \cup {[t EXCEPT !.due = @ + Second]}])

SP_CountdownTick ==
  /\ hook = "SP"
  /\ \E t \in sp.intervals :
       /\ t.due <= now
       /\ sp' = SP_countdownCallback(sp, t)
  /\ ev' = "tick"
  /\ UNCHANGED <<now, hook, ip, cgm, fn, lm, cd>>

\* the cleanup of line 177; the state of the unmounted hook is discarded
SP_Unmount ==
  /\ hook = "SP" /\ sp.mounted
  /\ sp' = With(SP_clearTimers(sp), LAMBDA c :
             [SP_Initial EXCEPT !.timeoutRef = c.timeoutRef, !.countdownRef = c.countdownRef,
                                !.timeouts = c.timeouts, !.intervals = c.intervals])
  /\ ev' = "unmount"
  /\ UNCHANGED <<now, hook, ip, cgm, fn, lm, cd>>

----------------------------------------------------------------------------
(* useIntelligentPolling (hooks/index.ts 134-333) *)

IP_Initial ==
  [mounted |-> FALSE, historicalData |-> <<>>, currentReading |-> Null,
   isLiveMode |-> FALSE, estimatedInterval |-> fallbackIntervalMs,
   nextExpectedReading |-> Null, timeUntilNext |-> 0, lastUpdate |-> Null,
   timeoutRef |-> Null, countdownRef |-> Null, timeouts |-> {}, intervals |-> {}]

\* mutation of IP_clearTimers: nothing is cleared
IP_keepTimers(s0) == s0

IP_clearTimers(s0) ==
  With(s0, LAMBDA s :
    [s EXCEPT !.timeouts = IF s.timeoutRef # Null
                           THEN {t \in @ : t.id # s.timeoutRef} ELSE @,
              !.timeoutRef = Null,
              !.intervals = IF s.countdownRef # Null
                            THEN {t \in @ : t.id # s.countdownRef} ELSE @,
              !.countdownRef = Null])

\* nextExpectedReading, isLiveMode and estimatedInterval are the values the
\* callback closed over; the state updates it queues are written to the record
IP_scheduleNextUpdate(s0, nextExpectedReading, isLiveMode, estimatedInterval, n) ==
  IF nextExpectedReading = Null \/ ~isLiveMode THEN s0
  ELSE With(IP_clearTimers(s0), LAMBDA c :
         LET msUntilNext == Max(0, nextExpectedReading - n)
             msWithBuffer == msUntilNext + BufferMs
             tid == FreshId({t.id : t \in c.timeouts})
             cid == FreshId({t.id : t \in c.intervals})
         IN IF msUntilNext < 0
            THEN [c EXCEPT !.lastUpdate = n,
                           !.nextExpectedReading =
                              AdvancePast(nextExpectedReading, estimatedInterval, n)]
            ELSE [c EXCEPT !.timeoutRef = tid,
                           !.timeouts = @ \cup {[id |-> tid, due |-> n + msWithBuffer,
                                                 target |-> nextExpectedReading,
                                                 iv |-> estimatedInterval,
                                                 live |-> isLiveMode]},
                           !.timeUntilNext = msWithBuffer,
                           !.countdownRef = cid,
                           !.intervals = @ \cup {[id |-> cid, due |-> n + Second]}])

\* the setTimeout callback, lines 279-291, for the fired timer t; an onUpdate
\* that throws ends the callback at line 282
IP_timerCallback(s, t, threw, n) ==
  IF threw THEN s
  ELSE [s EXCEPT !.lastUpdate = n,
                 !.nextExpectedReading = IF t.live THEN n + t.iv ELSE @]

\* The effects of one render.  cl holds the state of the render (what the
\* effects and callbacks close over), f the dependencies that changed; the state
\* updates the effects queue are written to the record.

IP_liveDeps(f) == f.mount \/ f.live \/ f.next \/ f.onUpdate \/ f.iv

\* cleanup of the live-mode effect, line 314
IP_liveCleanup(s, f) ==
  IF IP_liveDeps(f) /\ ~f.mount THEN IP_clearTimers(s) ELSE s

\* effect of lines 212-226
IP_dataEffect(s0, f, n) ==
  With(s0, LAMBDA s :
    IF (f.mount \/ f.hist) /\ Len(s.historicalData) > 0
    THEN LET newInterval == IP_calculateReadingInterval(s.historicalData)
         IN [s EXCEPT !.estimatedInterval = newInterval,
                      !.nextExpectedReading =
                         calculateNextExpectedReading(Latest(s.historicalData),
                                                      newInterval, n)]
    ELSE s)

\* effect of lines 229-234
IP_currentEffect(s0, cl, f, n) ==
  With(s0, LAMBDA s :
    IF (f.mount \/ f.cur \/ f.iv) /\ s.currentReading # Null
    THEN [s EXCEPT !.nextExpectedReading =
                      calculateNextExpectedReading(s.currentReading, cl.iv, n)]
    ELSE s)

\* effect of lines 305-315
IP_liveEffect(s, cl, f, n) ==
  IF IP_liveDeps(f)
  THEN IF cl.live /\ cl.next # Null
       THEN IP_scheduleNextUpdate(s, cl.next, cl.live, cl.iv, n)
       ELSE [IP_clearTimers(s) EXCEPT !.timeUntilNext = 0]
  ELSE s

IP_Commit(s, cl, f, n) ==
  IP_liveEffect(IP_currentEffect(IP_dataEffect(IP_liveCleanup(s, f), f, n), cl, f, n),
                cl, f, n)

\* whether the effects of the render call setNextExpectedReading: each call
\* stores a new Date object, which changes the state whatever its time
IP_nextSet(s, f) ==
  \/ (f.mount \/ f.hist) /\ Len(s.historicalData) > 0
  \/ (f.mount \/ f.cur \/ f.iv) /\ s.currentReading # Null

IP_Closure(s) ==
  [next |-> s.nextExpectedReading, iv |-> s.estimatedInterval, live |-> s.isLiveMode]

\* renders until no state update is pending
RECURSIVE IP_Settle(_, _, _)
IP_Settle(s0, f, n) ==
  With(s0, LAMBDA s :
    With(IP_Commit(s, IP_Closure(s), f, n), LAMBDA r :
      IF r.estimatedInterval # s.estimatedInterval \/ IP_nextSet(s, f)
      THEN IP_Settle(r, [NoChange EXCEPT !.iv = (r.estimatedInterval # s.estimatedInterval),
                                         !.next = IP_nextSet(s, f)], n)
      ELSE r))

IP_Mount(h, c) ==
  /\ hook = "IP" /\ ~ip.mounted
  /\ Available(h, now) /\ c <= now
  /\ ip' = IP_Settle([IP_Initial EXCEPT !.mounted = TRUE, !.historicalData = h,
                                         !.currentReading = c],
                     [NoChange EXCEPT !.mount = TRUE], now)
  /\ ev' = "mount"
  /\ UNCHANGED <<now, hook, sp, cgm, fn, lm, cd>>

IP_toggleLiveMode ==
  /\ hook = "IP" /\ ip.mounted
  /\ ip' = IP_Settle([ip EXCEPT !.isLiveMode = ~@], [NoChange EXCEPT !.live = TRUE], now)
  /\ ev' = "toggle"
  /\ UNCHANGED <<now, hook, sp, cgm, fn, lm, cd>>

IP_HistoricalData(h) ==
  /\ hook = "IP" /\ ip.mounted
  /\ Available(h, now)
  /\ ip' = IP_Settle([ip EXCEPT !.historicalData = h], [NoChange EXCEPT !.hist = TRUE], now)
  /\ ev' = "hist"
  /\ UNCHANGED <<now, hook, sp, cgm, fn, lm, cd>>

\* currentReading is compared by identity: a new object runs the effect even
\* with the timestamp of the previous one
IP_CurrentReading(c) ==
  /\ hook = "IP" /\ ip.mounted
  /\ c <= now
  /\ ip' = IP_Settle([ip EXCEPT !.currentReading = c], [NoChange EXCEPT !.cur = TRUE], now)
  /\ ev' = "cur"
  /\ UNCHANGED <<now, hook, sp, cgm, fn, lm, cd>>

IP_OnUpdateChange ==
  /\ hook = "IP" /\ ip.mounted
  /\ ip' = IP_Settle(ip, [NoChange EXCEPT !.onUpdate = TRUE], now)
  /\ ev' = "onUpdate"
  /\ UNCHANGED <<now, hook, sp, cgm, fn, lm, cd>>

IP_TimerFire ==
  /\ hook = "IP"
  /\ \E t \in ip.timeouts : \E threw \in BOOLEAN :
       /\ t.due <= now
       /\ ip' = IF ~threw /\ t.live
                THEN IP_Settle(IP_timerCallback([ip EXCEPT !.timeouts = @ \ {t}],
                                                t, threw, now),
                               [NoChange EXCEPT !.next = TRUE], now)
                ELSE IP_timerCallback([ip EXCEPT !.timeouts = @ \ {t}], t, threw, now)
       /\ ev' = IF threw THEN "fireThrow" ELSE "fire"
  /\ UNCHANGED <<now, hook, sp, cgm, fn, lm, cd>>

\* the setInterval callback of lines 295-297
\* mutation of IP_countdownCallback: the tick also pushes the primary timer back
IP_countdownPostpones(s, t) ==
  [s EXCEPT !.intervals = (@ \ {t}) \cup {[t EXCEPT !.due = @ + Second]},
            !.timeUntilNext = Max(0, @ - Second),
            !.timeouts = {[x EXCEPT !.due = @ + Second] : x \in @}]

IP_countdownCallback(s, t) ==
  [s EXCEPT !.intervals = (@ \ {t}) \cup {[t EXCEPT !.due = @ + Second]},
            !.timeUntilNext = Max(0, @ - Second)]

IP_CountdownTick ==
  /\ hook = "IP"
  /\ \E t \in ip.intervals :
       /\ t.due <= now
       /\ ip' = IP_countdownCallback(ip, t)
  /\ ev' = "tick"
  /\ UNCHANGED <<now, hook, sp, cgm, fn, lm, cd>>

\* the cleanups of lines 314 and 322; the state of the unmounted hook is discarded
IP_Unmount ==
  /\ hook = "IP" /\ ip.mounted
  /\ ip' = With(IP_clearTimers(ip), LAMBDA c :
             [IP_Initial EXCEPT !.timeoutRef = c.timeoutRef, !.countdownRef = c.countdownRef,
                                !.timeouts = c.timeouts, !.intervals = c.intervals])
  /\ ev' = "unmount"
  /\ UNCHANGED <<now, hook, sp, cgm, fn, lm, cd>>

----------------------------------------------------------------------------
(* SmartPollingAnalyzer.getPollingStrategy (utils/smartPolling.ts 85-149) *)

\* calculateConfidence(readings) < 0.3.  The confidence is
\* max(0.2, min(1, 1 - stdDev / mean)) over the first min(5, n-1) gaps, 0.5
\* under 3 readings, and NaN (no comparison holds) when the mean gap is 0.
\* 1 - cv < 0.3 iff cv^2 > 0.49 iff 100 (k Q - S^2) > 49 S^2, with S the sum
\* and Q the sum of squares of the k gaps, here in minutes.
\* mutation of LowConfidence: the confidence is never looked at
NeverLow(readings) == FALSE

LowConfidence(readings) ==
  IF Len(readings) < 3 THEN FALSE
  ELSE LET sorted == SortDesc(readings)
           k == Min(5, Len(sorted) - 1)
           g == [i \in 1..k |-> GapsDesc(sorted, k)[i] \div Minute]
           S == SumSeq(g)
           Q == SumSeq([i \in 1..k |-> g[i] * g[i]])
       IN IF S = 0 THEN FALSE ELSE 100 * (k * Q - S * S) > 49 * S * S


getPollingStrategy(readings, n) ==
  With(predictNextReading(readings), LAMBDA time :
    IF time = Null \/ LowConfidence(readings)
    THEN [mode |-> "normal", nextInterval |-> NORMAL_POLLING, nextExpectedReading |-> time]
    ELSE IF Abs(time - n) <= INTENSIVE_WINDOW
         THEN [mode |-> "intensive", nextInterval |-> INTENSIVE_POLLING,
               nextExpectedReading |-> time]
         ELSE [mode |-> "normal", nextInterval |-> NORMAL_POLLING,
               nextExpectedReading |-> time])

\* second version, lines 303-346: a prediction that is exactly now is in neither
\* intensive branch
getPollingStrategy2(readings, n) ==
  With(predictNextReading2(readings), LAMBDA time :
    IF time = Null \/ LowConfidence(readings)
    THEN [mode |-> "normal", nextInterval |-> NORMAL_POLLING, nextExpectedReading |-> time]
    ELSE IF \/ (time - n > 0 /\ time - n <= INTENSIVE_WINDOW)
            \/ (time - n < 0 /\ Abs(time - n) <= INTENSIVE_WINDOW)
         THEN [mode |-> "intensive", nextInterval |-> INTENSIVE_POLLING,
               nextExpectedReading |-> time]
         ELSE [mode |-> "normal", nextInterval |-> NORMAL_POLLING,
               nextExpectedReading |-> time])

----------------------------------------------------------------------------
(* useCGMData (hooks/useCGMData.ts), with its default options: autoRefresh  *)
(* and enableSmartPolling on, refreshInterval 5 minutes                     *)

CGM_Initial ==
  [mounted |-> FALSE, loaded |-> FALSE, cgmData |-> <<>>, loading |-> "idle",
   error |-> FALSE, pollingStrategy |-> NoStrategy,
   intervalRef |-> Null, timeouts |-> {}, inFlight |-> 0]

\* fetchData up to its await, lines 54-65; inFlight counts the pending calls
CGM_fetchStart(s) ==
  [s EXCEPT !.loading = "loading", !.error = FALSE, !.inFlight = @ + 1]

\* mutation of CGM_pollingCleanup: the pending timer is not cleared
CGM_keepTimer(s0) == s0

\* cleanup of the polling effect, lines 147-151
CGM_pollingCleanup(s0) ==
  With(s0, LAMBDA s :
    IF s.intervalRef # Null
    THEN [s EXCEPT !.timeouts = {t \in @ : t.id # s.intervalRef}]
    ELSE s)

\* setupNextRefresh, lines 123-142
CGM_setupNextRefresh(s0, n) ==
  With(CGM_pollingCleanup(s0), LAMBDA a :
    LET nextInterval == IF a.pollingStrategy.mode # "none"
                        THEN a.pollingStrategy.nextInterval
                        ELSE refreshInterval
        tid == FreshId({t.id : t \in a.timeouts})
    IN [a EXCEPT !.intervalRef = tid,
                 !.timeouts = @ \cup {[id |-> tid, due |-> n + nextInterval]}])

\* the polling effect after a render in which pollingStrategy changed
CGM_pollingEffect(s, n) == CGM_setupNextRefresh(CGM_pollingCleanup(s), n)

\* fetchData after its await, lines 67-98
CGM_fetchSettled(s, outcome, h, n) ==
  IF outcome = "fail"
  THEN [s EXCEPT !.error = TRUE, !.loading = "error"]
  ELSE IF Len(h) > 0
       THEN CGM_pollingEffect([s EXCEPT !.loaded = TRUE, !.cgmData = h,
                                        !.loading = "success",
                                        !.pollingStrategy = getPollingStrategy(h, n)], n)
       ELSE [s EXCEPT !.loaded = TRUE, !.cgmData = h, !.loading = "success"]

CGM_Mount ==
  /\ hook = "CGM" /\ ~cgm.mounted
  /\ cgm' = CGM_setupNextRefresh(
              CGM_fetchStart([CGM_Initial EXCEPT !.mounted = TRUE]), now)
  /\ ev' = "mount"
  /\ UNCHANGED <<now, hook, sp, ip, fn, lm, cd>>

CGM_TimerFire ==
  /\ hook = "CGM"
  /\ \E t \in cgm.timeouts :
       /\ t.due <= now
       /\ cgm.inFlight < MaxInFlight
       /\ cgm' = CGM_fetchStart([cgm EXCEPT !.timeouts = @ \ {t}])
  /\ ev' = "fire"
  /\ UNCHANGED <<now, hook, sp, ip, fn, lm, cd>>

CGM_refresh ==
  /\ hook = "CGM" /\ cgm.mounted
  /\ cgm.inFlight < MaxInFlight
  /\ cgm' = CGM_fetchStart(cgm)
  /\ ev' = "refresh"
  /\ UNCHANGED <<now, hook, sp, ip, fn, lm, cd>>

CGM_FetchDone(outcome, h) ==
  /\ hook = "CGM" /\ cgm.mounted
  /\ IF outcome = "ok" THEN Available(h, now) ELSE h = <<>>
  /\ cgm.inFlight > 0
  /\ cgm' = CGM_fetchSettled([cgm EXCEPT !.inFlight = @ - 1], outcome, h, now)
  /\ ev' = IF outcome = "fail" THEN "doneFail"
           ELSE IF h = <<>> THEN "doneEmpty" ELSE "doneReadings"
  /\ UNCHANGED <<now, hook, sp, ip, fn, lm, cd>>

\* clearError, lines 107-112
CGM_clearError ==
  /\ hook = "CGM" /\ cgm.mounted
  /\ cgm' = [cgm EXCEPT !.error = FALSE,
                        !.loading = IF cgm.loading = "error" THEN "idle" ELSE @]
  /\ ev' = "clearError"
  /\ UNCHANGED <<now, hook, sp, ip, fn, lm, cd>>

\* cleanups of lines 147-151 and 180-187; the responses of the requests still
\* in flight reach no mounted component
CGM_Unmount ==
  /\ hook = "CGM" /\ cgm.mounted
  /\ cgm' = With(CGM_pollingCleanup(cgm), LAMBDA c :
              [CGM_Initial EXCEPT !.intervalRef = c.intervalRef, !.timeouts = c.timeouts])
  /\ ev' = "unmount"
  /\ UNCHANGED <<now, hook, sp, ip, fn, lm, cd>>

----------------------------------------------------------------------------
(* useLiveMode (the fixed-interval live mode hook, unnamed/part_001 388-463). *)
(* Both of its timers are setInterval timers; intervals holds them with the  *)
(* period they were armed with.                                              *)

\* the intervalMs option a caller passes (default 5 minutes)
LM_Intervals == {20 * Second, 5 * Minute}

LM_Initial ==
  [mounted |-> FALSE, isLiveMode |-> FALSE, intervalMs |-> 5 * Minute,
   timeUntilNext |-> 0, lastUpdate |-> Null,
   intervalRef |-> Null, countdownRef |-> Null, intervals |-> {}]

LM_clearTimers(s0) ==
  With(s0, LAMBDA s :
    [s EXCEPT !.intervals = {t \in @ : ~(s.intervalRef # Null /\ t.id = s.intervalRef)
                                       /\ ~(s.countdownRef # Null /\ t.id = s.countdownRef)},
              !.intervalRef = Null,
              !.countdownRef = Null])

LM_startCountdown(s0, n) ==
  With(s0, LAMBDA s :
    LET cid == FreshId({t.id : t \in s.intervals})
    IN [s EXCEPT !.timeUntilNext = s.intervalMs,
                 !.countdownRef = cid,
                 !.intervals = @ \cup {[id |-> cid, due |-> n + Second, kind |-> "countdown",
                                        period |-> Second, intervalMs |-> s.intervalMs]}])

\* the body of the live mode effect, lines 427-448
LM_liveEffect(s0, n) ==
  With(s0, LAMBDA s :
    IF s.isLiveMode
    THEN LET uid == FreshId({t.id : t \in s.intervals})
         IN LM_startCountdown(
              [s EXCEPT !.lastUpdate = n,
                        !.intervalRef = uid,
                        !.intervals = @ \cup {[id |-> uid, due |-> n + s.intervalMs,
                                               kind |-> "update", period |-> s.intervalMs,
                                               intervalMs |-> s.intervalMs]}], n)
    ELSE [LM_clearTimers(s) EXCEPT !.timeUntilNext = 0])

\* a render in which a dependency of the live mode effect changed: its cleanup
\* (line 450), then its body
LM_Rerun(s, n) == LM_liveEffect(LM_clearTimers(s), n)

LM_Mount(iv) ==
  /\ hook = "LM" /\ ~lm.mounted
  /\ lm' = LM_liveEffect([LM_Initial EXCEPT !.mounted = TRUE, !.intervalMs = iv], now)
  /\ ev' = "mount"
  /\ UNCHANGED <<now, hook, sp, ip, cgm, fn, cd>>

LM_toggleLiveMode ==
  /\ hook = "LM" /\ lm.mounted
  /\ lm' = LM_Rerun([lm EXCEPT !.isLiveMode = ~@], now)
  /\ ev' = "toggle"
  /\ UNCHANGED <<now, hook, sp, ip, cgm, fn, cd>>

LM_OnUpdateChange ==
  /\ hook = "LM" /\ lm.mounted
  /\ lm' = LM_Rerun(lm, now)
  /\ ev' = "onUpdate"
  /\ UNCHANGED <<now, hook, sp, ip, cgm, fn, cd>>

\* the setInterval callback of lines 436-441; an onUpdate that throws ends it
\* before setLastUpdate
LM_UpdateFire(threw) ==
  /\ hook = "LM"
  /\ \E t \in lm.intervals :
       /\ t.kind = "update" /\ t.due <= now
       /\ lm' = [lm EXCEPT !.intervals = (@ \ {t}) \cup {[t EXCEPT !.due = @ + t.period]},
                           !.lastUpdate = IF threw THEN @ ELSE now]
  /\ ev' = IF threw THEN "fireThrow" ELSE "fire"
  /\ UNCHANGED <<now, hook, sp, ip, cgm, fn, cd>>

\* the setInterval callback of lines 413-420
LM_CountdownTick ==
  /\ hook = "LM"
  /\ \E t \in lm.intervals :
       /\ t.kind = "countdown" /\ t.due <= now
       /\ lm' = [lm EXCEPT !.intervals = (@ \ {t}) \cup {[t EXCEPT !.due = @ + t.period]},
                           !.timeUntilNext = IF @ <= Second THEN t.intervalMs
                                             ELSE @ - Second]
  /\ ev' = "tick"
  /\ UNCHANGED <<now, hook, sp, ip, cgm, fn, cd>>

\* the cleanups of lines 450 and 455; the state of the unmounted hook is discarded
LM_Unmount ==
  /\ hook = "LM" /\ lm.mounted
  /\ lm' = With(LM_clearTimers(LM_clearTimers(lm)), LAMBDA c :
             [LM_Initial EXCEPT !.intervalRef = c.intervalRef,
                                !.countdownRef = c.countdownRef,
                                !.intervals = c.intervals])
  /\ ev' = "unmount"
  /\ UNCHANGED <<now, hook, sp, ip, cgm, fn, cd>>

----------------------------------------------------------------------------
(* useCGMData of the services layer (unnamed/part_003, lines 79-303): the   *)
(* hook whose options carry onError and onDataUpdate, as useCGMChart        *)
(* (hooks/index.ts) passes them.  Its two timers are kept by the time that  *)
(* remains until they fire.                                                  *)

\* the refresh intervals a caller passes: the refreshInterval option and the
\* argument of setRefreshInterval; 0 switches auto-refresh off
CD_Intervals == {0, 3 * Second}

\* the data state before any response was stored.  superseded: the response
\* came from a call after which another call had already started; overtaken: a
\* call started later had already stored its response
NoData == [stored |-> FALSE, superseded |-> FALSE, overtaken |-> FALSE]

\* a request that was just started: latest says that abortControllerRef holds
\* its controller, aborted that abort() was called on its controller
NewRequest ==
  [latest |-> TRUE, aborted |-> FALSE, superseded |-> FALSE, overtaken |-> FALSE]

\* useState / useRef initial values, lines 91-103
CD_Initial ==
  [mounted |-> FALSE, fresh |-> FALSE, data |-> NoData, loadingState |-> "idle",
   error |-> FALSE, nextRefreshIn |-> 0, currentRefreshInterval |-> 0,
   refreshTimeoutRef |-> Null, countdownIntervalRef |-> Null, pending |-> <<>>]

\* abortControllerRef.current.abort(): the controller belongs to the latest
\* call; its signal was handed to no request, so the request goes on
CD_abort(pending) ==
  [i \in 1..Len(pending) |->
     [pending[i] EXCEPT !.aborted = @ \/ pending[i].latest]]

\* fetchData up to its await, lines 157-173
CD_fetchStart(s0) ==
  With(s0, LAMBDA s :
    [s EXCEPT !.pending =
                Append([i \in 1..Len(s.pending) |->
                          [CD_abort(s.pending)[i] EXCEPT !.latest = FALSE,
                                                         !.superseded = TRUE]],
                       NewRequest),
              !.loadingState = "loading",
              !.error = FALSE])

\* the requests that stay pending when request i settles
CD_others(pending, i, ok) ==
  [j \in 1..(Len(pending) - 1) |->
     IF j < i THEN [pending[j] EXCEPT !.overtaken = @ \/ ok]
     ELSE pending[j + 1]]

\* fetchData after its await, lines 175-193, for the i-th pending call
CD_fetchSettled(s0, i, ok) ==
  With(s0, LAMBDA s :
    IF ok
    THEN [s EXCEPT !.data = [stored |-> TRUE,
                             superseded |-> s.pending[i].superseded,
                             overtaken |-> s.pending[i].overtaken],
                   !.loadingState = "success",
                   !.pending = CD_others(s.pending, i, TRUE)]
    ELSE [s EXCEPT !.error = TRUE,
                   !.loadingState = "error",
                   !.pending = CD_others(s.pending, i, FALSE)])

\* which dependencies of the effects changed in a render
CD_NoDeps == [mount |-> FALSE, fetchData |-> FALSE, interval |-> FALSE, next |-> FALSE]

\* the auto-refresh effect with its cleanup, lines 215-243: setupRefresh arms the
\* timeout for the whole interval and queues setNextRefreshIn
CD_autoRefreshEffect(s0, f) ==
  With(s0, LAMBDA s :
    IF f.mount \/ f.fetchData \/ f.interval
    THEN IF s.currentRefreshInterval = 0
         THEN [s EXCEPT !.refreshTimeoutRef = Null]
         ELSE [s EXCEPT !.refreshTimeoutRef = s.currentRefreshInterval,
                        !.nextRefreshIn = s.currentRefreshInterval]
    ELSE s)

\* the countdown effect with its cleanup, lines 246-261; shown is the
\* nextRefreshIn of the render the effect belongs to
CD_countdownEffect(s0, f, shown) ==
  With(s0, LAMBDA s :
    IF f.mount \/ f.next \/ f.interval
    THEN IF s.currentRefreshInterval = 0 \/ shown = 0
         THEN [s EXCEPT !.countdownIntervalRef = Null]
         ELSE [s EXCEPT !.countdownIntervalRef = Second]
    ELSE s)

\* the effects of one render of state s
CD_Commit(s, f) ==
  CD_countdownEffect(CD_autoRefreshEffect(s, f), f, s.nextRefreshIn)

\* renders until no state update is pending: the setNextRefreshIn of setupRefresh
\* makes a second render; callbacks built in every render (s.fresh) make a new
\* fetchData in every render
CD_Settle(s0, f) ==
  With(s0, LAMBDA s :
    With(CD_Commit(s, [f EXCEPT !.fetchData = @ \/ s.fresh]), LAMBDA r :
      IF r.nextRefreshIn # s.nextRefreshIn
      THEN CD_Commit(r, [CD_NoDeps EXCEPT !.next = TRUE, !.fetchData = r.fresh])
      ELSE r))

\* a state update that changes nothing makes no render
CD_Rerender(s, changed, f) == IF changed THEN CD_Settle(s, f) ELSE s

\* the first render: the auto-refresh effect, the countdown effect (nextRefreshIn
\* is still 0) and the initial fetch of lines 264-268, then the render their
\* state updates cause
CD_Mount(iv, fresh, fetchOnMount) ==
  /\ hook = "CD" /\ cd = CD_Initial
  /\ cd' = With(CD_Commit([CD_Initial EXCEPT !.mounted = TRUE, !.fresh = fresh,
                                             !.currentRefreshInterval = iv],
                          [CD_NoDeps EXCEPT !.mount = TRUE]), LAMBDA r :
             With(IF fetchOnMount THEN CD_fetchStart(r) ELSE r, LAMBDA s :
               CD_Rerender(s, s.nextRefreshIn # 0 \/ fetchOnMount,
                           [CD_NoDeps EXCEPT !.next = s.nextRefreshIn # 0])))
  /\ ev' = "mount"
  /\ UNCHANGED <<now, hook, sp, ip, cgm, fn, lm>>

\* refresh() or fetchData() called by the user, lines 198-200
CD_refresh ==
  /\ hook = "CD" /\ cd.mounted
  /\ Len(cd.pending) < MaxInFlight
  /\ cd' = CD_Rerender(CD_fetchStart(cd),
                       cd.loadingState # "loading" \/ cd.error, CD_NoDeps)
  /\ ev' = "refresh"
  /\ UNCHANGED <<now, hook, sp, ip, cgm, fn, lm>>

\* the i-th pending request settles; after the unmount its state updates are
\* dropped
CD_FetchDone(i, ok) ==
  /\ hook = "CD"
  /\ i \in 1..Len(cd.pending)
  /\ cd' = IF cd.mounted
           THEN CD_Rerender(CD_fetchSettled(cd, i, ok), TRUE, CD_NoDeps)
           ELSE [cd EXCEPT !.pending = CD_others(cd.pending, i, FALSE)]
  /\ ev' = IF ok THEN "done" ELSE "fail"
  /\ UNCHANGED <<now, hook, sp, ip, cgm, fn, lm>>

\* clearError, lines 203-208
CD_clearError ==
  /\ hook = "CD" /\ cd.mounted
  /\ cd' = CD_Rerender([cd EXCEPT !.error = FALSE,
                                  !.loadingState = IF @ = "error" THEN "idle" ELSE @],
                       cd.error \/ cd.loadingState = "error", CD_NoDeps)
  /\ ev' = "clear"
  /\ UNCHANGED <<now, hook, sp, ip, cgm, fn, lm>>

\* setRefreshInterval, lines 211-213
CD_setRefreshInterval(iv) ==
  /\ hook = "CD" /\ cd.mounted
  /\ cd' = CD_Rerender([cd EXCEPT !.currentRefreshInterval = iv],
                       iv # cd.currentRefreshInterval,
                       [CD_NoDeps EXCEPT !.interval = TRUE])
  /\ ev' = "interval"
  /\ UNCHANGED <<now, hook, sp, ip, cgm, fn, lm>>

\* the hours option changes (useCGMChart: the chart's time range): serviceOptions
\* and with it fetchData are rebuilt
CD_HoursChange ==
  /\ hook = "CD" /\ cd.mounted
  /\ cd' = CD_Settle(cd, [CD_NoDeps EXCEPT !.fetchData = TRUE])
  /\ ev' = "hours"
  /\ UNCHANGED <<now, hook, sp, ip, cgm, fn, lm>>

\* the setTimeout callback of setupRefresh, lines 226-229: fetchData, then
\* setupRefresh again
CD_RefreshFire ==
  /\ hook = "CD" /\ cd.mounted
  /\ cd.refreshTimeoutRef = 0
  /\ Len(cd.pending) < MaxInFlight
  /\ cd' = With(CD_fetchStart(cd), LAMBDA s :
             CD_Rerender([s EXCEPT !.refreshTimeoutRef = s.currentRefreshInterval,
                                   !.nextRefreshIn = s.currentRefreshInterval],
                         TRUE,
                         [CD_NoDeps EXCEPT
                            !.next = s.nextRefreshIn # s.currentRefreshInterval]))
  /\ ev' = "refreshFire"
  /\ UNCHANGED <<now, hook, sp, ip, cgm, fn, lm>>

\* the setInterval callback of the countdown, lines 249-251; the interval stays
\* armed unless the render it causes clears it
CD_CountdownTick ==
  /\ hook = "CD" /\ cd.mounted
  /\ cd.countdownIntervalRef = 0
  /\ cd' = With([cd EXCEPT !.nextRefreshIn = IF @ > Second THEN @ - Second ELSE 0,
                           !.countdownIntervalRef = Second], LAMBDA s :
             CD_Rerender(s, s.nextRefreshIn # cd.nextRefreshIn,
                         [CD_NoDeps EXCEPT !.next = TRUE]))
  /\ ev' = "tick"
  /\ UNCHANGED <<now, hook, sp, ip, cgm, fn, lm>>

\* a second passes: no timer of the hook is due
CD_TimePasses ==
  /\ hook = "CD" /\ cd.mounted
  /\ cd.refreshTimeoutRef # Null \/ cd.countdownIntervalRef # Null
  /\ cd.refreshTimeoutRef # 0 /\ cd.countdownIntervalRef # 0
  /\ cd' = [cd EXCEPT !.refreshTimeoutRef = IF @ = Null THEN Null ELSE @ - Second,
                      !.countdownIntervalRef = IF @ = Null THEN Null ELSE @ - Second]
  /\ ev' = "time"
  /\ UNCHANGED <<now, hook, sp, ip, cgm, fn, lm>>

\* the unmount cleanup of lines 271-286 and the cleanups of both timer effects
CD_Unmount ==
  /\ hook = "CD" /\ cd.mounted
  /\ cd' = [cd EXCEPT !.mounted = FALSE,
                      !.pending = [i \in 1..Len(cd.pending) |->
                                     [CD_abort(cd.pending)[i] EXCEPT !.latest = FALSE]],
                      !.refreshTimeoutRef = Null,
                      !.countdownIntervalRef = Null]
  /\ ev' = "unmount"
  /\ UNCHANGED <<now, hook, sp, ip, cgm, fn, lm>>

----------------------------------------------------------------------------
(* The clock.  A timer fires when it is due: a second passes only when no   *)
(* armed timer of the hook is due.                                          *)

Armed ==
  CASE hook = "SP" -> sp.timeouts \cup sp.intervals
    [] hook = "IP" -> ip.timeouts \cup ip.intervals
    [] hook = "CGM" -> cgm.timeouts
    [] hook = "LM" -> lm.intervals
    [] OTHER -> {}

TimePasses ==
  /\ hook \in {"SP", "IP", "CGM", "LM"}
  /\ now + Second <= MaxTime
  /\ \A t \in Armed : t.due > now
  /\ now' = now + Second
  /\ ev' = "time"
  /\ UNCHANGED <<hook, sp, ip, cgm, fn, lm, cd>>

Init ==
  /\ now = StartTime
  /\ hook \in {"SP", "IP", "CGM", "LM"}
  /\ ev = "init"
  /\ sp = SP_Initial
  /\ ip = IP_Initial
  /\ cgm = CGM_Initial
  /\ lm = LM_Initial
  /\ cd = CD_Initial
  /\ fn = FnIdle

Next ==
  \/ \E h \in Feed : \E c \in CurrentTimes \cup {Null} : SP_Mount(h, c)
  \/ \E h \in Feed : SP_HistoricalData(h)
  \/ \E c \in CurrentTimes : SP_CurrentReading(c)
  \/ SP_OnUpdateChange
  \/ SP_TimerFire
  \/ SP_CountdownTick
  \/ SP_Unmount
  \/ \E h \in Feed : \E c \in CurrentTimes \cup {Null} : IP_Mount(h, c)
  \/ IP_toggleLiveMode
  \/ \E h \in Feed : IP_HistoricalData(h)
  \/ \E c \in CurrentTimes : IP_CurrentReading(c)
  \/ IP_OnUpdateChange
  \/ IP_TimerFire
  \/ IP_CountdownTick
  \/ IP_Unmount
  \/ CGM_Mount
  \/ CGM_TimerFire
  \/ CGM_refresh
  \/ \E h \in Responses : \E outcome \in {"ok", "fail"} : CGM_FetchDone(outcome, h)
  \/ CGM_clearError
  \/ CGM_Unmount
  \/ \E iv \in LM_Intervals : LM_Mount(iv)
  \/ LM_toggleLiveMode
  \/ LM_OnUpdateChange
  \/ \E threw \in BOOLEAN : LM_UpdateFire(threw)
  \/ LM_CountdownTick
  \/ LM_Unmount
  \/ TimePasses

Spec == Init /\ [][Next]_vars

----------------------------------------------------------------------------
(* The pure functions applied to bounded inputs *)

FnInit ==
  /\ now = StartTime
  /\ hook = "fn"
  /\ ev = "init"
  /\ sp = SP_Initial
  /\ ip = IP_Initial
  /\ cgm = CGM_Initial
  /\ lm = LM_Initial
  /\ cd = CD_Initial
  /\ fn \in {[FnIdle EXCEPT !.stage = "input", !.readings = r] : r \in InputHistories}

\* the four interval estimators on the history
FnEstimate ==
  /\ fn.stage = "input"
  /\ fn' = [fn EXCEPT !.stage = "estimated",
                      !.readingsAfter = CallerArrayAfter(fn.readings),
                      !.avg1 = getAverageInterval(fn.readings),
                      !.avg2 = calculateAverageInterval(fn.readings),
                      !.spIv = SP_calculateReadingInterval(fn.readings),
                      !.ipIv = IP_calculateReadingInterval(fn.readings)]
  /\ UNCHANGED <<now, hook, ev, sp, ip, cgm, lm, cd>>

\* the predictions at the time off after the newest sample: those of the two
\* analyzers, the target useSmartPolling schedules for (the reference set by the
\* data effect, then the staleness correction), and the next expected reading
\* of useIntelligentPolling
FnPredict(off) ==
  /\ fn.stage = "estimated"
  /\ Len(fn.readings) > 0
  /\ LET latest == Latest(fn.readings)
         at == latest + off
     IN fn' = [fn EXCEPT !.stage = "predicted",
                         !.at = at,
                         !.pred1 = predictNextReading(fn.readings),
                         !.pred2 = predictNextReading2(fn.readings),
                         !.conf1 = predictConfidence(fn.readings),
                         !.conf2 = predictConfidence2(fn.readings),
                         !.strat1 = getPollingStrategy(fn.readings, at),
                         !.strat2 = getPollingStrategy2(fn.readings, at),
                         !.spTarget = SP_correctedTarget(latest + fn.spIv, fn.spIv, at),
                         !.ipNext = calculateNextExpectedReading(latest, fn.ipIv, at)]
  /\ UNCHANGED <<now, hook, ev, sp, ip, cgm, lm, cd>>

\* with no reading there is no prediction
FnPredictEmpty ==
  /\ fn.stage = "estimated"
  /\ Len(fn.readings) = 0
  /\ fn' = [fn EXCEPT !.stage = "predicted",
                      !.at = StartTime,
                      !.pred1 = predictNextReading(fn.readings),
                      !.pred2 = predictNextReading2(fn.readings),
                      !.conf1 = predictConfidence(fn.readings),
                      !.conf2 = predictConfidence2(fn.readings),
                      !.strat1 = getPollingStrategy(fn.readings, StartTime),
                      !.strat2 = getPollingStrategy2(fn.readings, StartTime)]
  /\ UNCHANGED <<now, hook, ev, sp, ip, cgm, lm, cd>>

FnNext ==
  \/ FnEstimate
  \/ \E off \in NowOffsets : FnPredict(off)
  \/ FnPredictEmpty

SpecFn == FnInit /\ [][FnNext]_vars

----------------------------------------------------------------------------
(* What the claims observe *)

\* the pending primary timers of the hook
Primary ==
  CASE hook = "SP" -> sp.timeouts
    [] hook = "IP" -> ip.timeouts
    [] hook = "CGM" -> cgm.timeouts
    [] OTHER -> {}

\* the pending one-second countdown timers of the hook
Countdown ==
  CASE hook = "SP" -> sp.intervals
    [] hook = "IP" -> ip.intervals
    [] OTHER -> {}

\* the next expected arrival the scheduler works from
NextExpected ==
  CASE hook = "SP" -> sp.nextExpectedRef
    [] hook = "IP" -> ip.nextExpectedReading
    [] OTHER -> Null

\* the scheduler is started and has a next expected arrival
Active ==
  CASE hook = "SP" -> sp.mounted /\ sp.nextExpectedRef # Null
    [] hook = "IP" -> ip.mounted /\ ip.isLiveMode /\ ip.nextExpectedReading # Null
    [] OTHER -> FALSE

\* the scheduler is stopped: useSmartPolling unmounted, useIntelligentPolling
\* unmounted or with live mode off
Stopped ==
  CASE hook = "SP" -> ~sp.mounted
    [] hook = "IP" -> ~ip.mounted \/ ~ip.isLiveMode
    [] OTHER -> FALSE

\* the history the hook was last given
History ==
  CASE hook = "SP" -> sp.historicalData
    [] hook = "IP" -> ip.historicalData
    [] OTHER -> <<>>

----------------------------------------------------------------------------
(* Claims about the schedulers, checked under Spec *)

\* C1: in every reachable state of useSmartPolling, useIntelligentPolling and
\* useCGMData at most one primary timer is pending, whatever the interleaving
\* of mount, new data, timer fire, re-scheduling re-render and stop: each arm
\* clears the timer pending before it in the same step.
C1_AtMostOnePrimaryTimer == Cardinality(Primary) <= 1

\* useCGMData re-armed on a response with readings while the timer armed at
\* mount was still pending (no timer is due before 45 s have passed)
C1_Witness ==
  /\ hook = "CGM" /\ ev = "doneReadings" /\ now = StartTime
  /\ Cardinality(cgm.timeouts) = 1
  /\ \E t \in cgm.timeouts : t.due = now + INTENSIVE_POLLING

\* C2: once the scheduler is stopped (useIntelligentPolling's live mode off,
\* or the hook unmounted) neither the primary timer nor the countdown timer is
\* pending, and no step of a stopped scheduler is a timer fire (which is the
\* only caller of onUpdate) until it is started again.
C2_StoppedIsSilent ==
  [][Stopped' => /\ Primary' = {}
                 /\ Countdown' = {}
                 /\ ev' \notin {"fire", "fireThrow"}]_vars

\* live mode toggled off while a next expected reading existed, that is while
\* both timers were pending
C2_Witness ==
  /\ hook = "IP" /\ ev = "toggle" /\ ip.mounted /\ ~ip.isLiveMode
  /\ ip.nextExpectedReading # Null
  /\ ip.timeouts = {} /\ ip.intervals = {}

\* C3: a primary-timer fire whose onUpdate throws leaves an active scheduler
\* with a pending primary timer.
C3_ThrowStillArms ==
  (hook \in {"SP", "IP"} /\ ev = "fireThrow" /\ Active) => Primary # {}

\* C4: in useCGMData, once the fetches are settled (the one a refresh timer
\* started among them) a refresh timer is pending, whether the fetch ended
\* with readings, with an empty list or with a failure.
C4_RearmedAfterFetch ==
  (/\ hook = "CGM" /\ cgm.mounted
   /\ ev \in {"doneReadings", "doneEmpty", "doneFail"}
   /\ cgm.inFlight = 0) => cgm.timeouts # {}

\* C5: an active scheduler with a next expected reading is never idle: a
\* primary timer is pending (so that the callback is invoked again and again).
C5_ActiveIsScheduled ==
  (hook \in {"SP", "IP"} /\ Active) => Primary # {}

\* C6: after non-empty historical data arrived at an active scheduler, the one
\* pending primary timer aims at the prediction recomputed from it, also when
\* the estimated interval did not change.
C6_RearmedOnNewData ==
  (hook \in {"SP", "IP"} /\ ev = "hist" /\ Active /\ Len(History) > 0) =>
     \E t \in Primary : Primary = {t} /\ t.target = NextExpected

\* C8: a primary timer armed by a step is due max(0, nextArrival - now) + 30 s
\* after it, nextArrival being the corrected next expected arrival; mounted at
\* 10 min with the history 0, 5 min, 10 min and no current reading the hook
\* arms it for 5 min 30 s.
C8_DelayIsGapPlusBuffer ==
  [][hook' \in {"SP", "IP"} =>
       /\ \A t \in Primary' \ Primary :
            /\ t.target = NextExpected'
            /\ t.due - now' = Max(0, t.target - now') + 30 * Second
       /\ (/\ ev' = "mount" /\ now' = 10 * Minute
           /\ History' = <<0, 5 * Minute, 10 * Minute>>
           /\ (IF hook' = "SP" THEN sp'.currentReading ELSE ip'.currentReading) = Null
           /\ (hook' = "IP" => ip'.isLiveMode))
          => \E t \in Primary' : t.due - now' = 5 * Minute + 30 * Second]_vars

\* useSmartPolling mounted at 10 min with the history 0, 5 min, 10 min
C8_Witness ==
  /\ hook = "SP" /\ ev = "mount" /\ now = 10 * Minute
  /\ sp.historicalData = <<0, 5 * Minute, 10 * Minute>> /\ sp.currentReading = Null
  /\ \E t \in sp.timeouts : t.target = 15 * Minute /\ t.due = now + 330 * Second

----------------------------------------------------------------------------
(* Claims about the estimators and predictors, checked under SpecFn *)

Predicted == fn.stage = "predicted" /\ Len(fn.readings) > 0

C9_ShortHistoryGetsDefault ==
  (fn.stage # "input" /\ Len(fn.readings) < 2) =>
     /\ fn.avg1 = 5 * Minute /\ fn.avg2 = 5 * Minute
     /\ fn.spIv = 5 * Minute /\ fn.ipIv = 5 * Minute

C9_Witness ==
  /\ fn.stage = "estimated" /\ Len(fn.readings) = 1
  /\ fn.avg1 = 5 * Minute /\ fn.spIv = 5 * Minute

\* the k-th smallest value of the sequence g, by counting
Ranked(g, k) ==
  CHOOSE v \in {g[i] : i \in 1..Len(g)} :
    /\ Cardinality({i \in 1..Len(g) : g[i] < v}) < k
    /\ Cardinality({i \in 1..Len(g) : g[i] <= v}) >= k

\* the median of the 3 to 8 minute gaps among the w newest gaps of the
\* history, the default when there is none
MedianOfBandGaps(readings, w) ==
  LET n == Len(readings)
      k == Min(w, n - 1)
      gaps == [j \in 1..k |-> Ranked(readings, n - j + 1) - Ranked(readings, n - j)]
      inBand == SelectSeq(gaps, LAMBDA g : g >= 3 * Minute /\ g <= 8 * Minute)
      m == Len(inBand)
  IN IF m = 0 THEN 5 * Minute
     ELSE (Ranked(inBand, (m - 1) \div 2 + 1) + Ranked(inBand, m \div 2 + 1)) \div 2

\* C10: for a history of at least 2 samples the analyzer's estimate is the
\* median of the gaps of 3 to 8 minutes among the newest gaps (the newest 5
\* for getAverageInterval, the newest 10 for calculateAverageInterval), the
\* mean of the two middle ones when their number is even, and 5 minutes when
\* no gap of the window is in the band.
C10_MedianOfBandGaps ==
  (fn.stage = "estimated" /\ Len(fn.readings) >= 2) =>
     /\ fn.avg1 = MedianOfBandGaps(fn.readings, 5)
     /\ fn.avg2 = MedianOfBandGaps(fn.readings, 10)

\* an even number of gaps in the band with different middle values, and a gap
\* older than the window of getAverageInterval that changes the median
C10_Witness ==
  /\ fn.stage = "estimated" /\ Len(fn.readings) = 7
  /\ fn.avg1 = 5 * Minute /\ fn.avg2 = 4 * Minute
  /\ fn.avg1 # MedianOfBandGaps(fn.readings, 6)

\* the gaps between consecutive samples of the history, newest first, by rank
GapsOf(readings) ==
  [j \in 1..(Len(readings) - 1) |->
     Ranked(readings, Len(readings) - j + 1) - Ranked(readings, Len(readings) - j)]

\* the median of the gaps of lo to hi among the w newest gaps of the history,
\* the default when there is none
MedianOfGapsIn(readings, w, lo, hi) ==
  LET all == GapsOf(readings)
      gaps == SubSeq(all, 1, Min(w, Len(all)))
      inBand == SelectSeq(gaps, LAMBDA g : g >= lo /\ g <= hi)
      m == Len(inBand)
  IN IF m = 0 THEN 5 * Minute
     ELSE (Ranked(inBand, (m - 1) \div 2 + 1) + Ranked(inBand, m \div 2 + 1)) \div 2

\* C11: the interval estimate of useSmartPolling is the median of the gaps
\* between the recent readings (those it analyses: the gaps of 4 to 6 minutes
\* among the 10 newest readings).
C11_SmartPollingUsesMedian ==
  (fn.stage = "estimated" /\ Len(fn.readings) >= 2) =>
     fn.spIv = MedianOfGapsIn(fn.readings, 9, 4 * Minute, 6 * Minute)

\* the history has at least one gap, all its gaps are 5 minutes but one of 40
OneOutlier ==
  /\ Len(fn.readings) >= 2
  /\ LET g == GapsOf(fn.readings)
     IN /\ Cardinality({j \in 1..Len(g) : g[j] = 40 * Minute}) = 1
        /\ \A j \in 1..Len(g) : g[j] \in {5 * Minute, 40 * Minute}

\* C12: for a history whose gaps are all 5 minutes but one outlier of 40
\* minutes, wherever the outlier is, the interval estimates of the analyzer and
\* of useSmartPolling are 5 minutes.
C12_OutlierDoesNotShift ==
  (fn.stage = "estimated" /\ OneOutlier) =>
     /\ fn.avg1 = 5 * Minute /\ fn.avg2 = 5 * Minute /\ fn.spIv = 5 * Minute

\* the outlier is the third newest of six gaps, inside every analysis window
C12_Witness ==
  /\ fn.stage = "estimated" /\ OneOutlier /\ Len(fn.readings) = 7
  /\ GapsOf(fn.readings)[3] = 40 * Minute
  /\ fn.avg1 = 5 * Minute /\ fn.spIv = 5 * Minute

\* the rearrangements of a sequence of n elements
Perms(n) == {f \in [1..n -> 1..n] : \A i, j \in 1..n : f[i] = f[j] => i = j}

Permuted(s, f) == [i \in 1..Len(s) |-> s[f[i]]]

\* the analyzer's estimates and predictions on the history given as r are those
\* stored for the order the caller gave
SameResults(r) ==
  /\ getAverageInterval(r) = fn.avg1
  /\ calculateAverageInterval(r) = fn.avg2
  /\ predictNextReading(r) = predictNextReading(fn.readings)
  /\ predictNextReading2(r) = predictNextReading2(fn.readings)

\* C13: the interval estimate and the prediction do not depend on the order
\* of the samples (every rearrangement of a history of up to 4
\* samples, and the sorted order of every history, give the results of the
\* caller's order), and the caller's sequence is as it was before the call.
C13_OrderIndependent ==
  fn.stage = "estimated" =>
     /\ SameResults(SortAsc(fn.readings))
     /\ Len(fn.readings) <= 4 =>
          \A f \in Perms(Len(fn.readings)) : SameResults(Permuted(fn.readings, f))
     /\ fn.readingsAfter = fn.readings

\* an unordered history with unequal gaps was estimated
C13_Witness ==
  /\ fn.stage = "estimated"
  /\ fn.readings = <<3 * Minute, 11 * Minute, 0>>
  /\ fn.readingsAfter = fn.readings
  /\ fn.avg1 = 330 * Second

\* C14: for every non-empty history, also one whose samples all carry the same
\* timestamp, the confidence returned with the prediction is a number between
\* 0.2 and 1, never NaN.
C14_ConfidenceInRange ==
  Predicted => /\ fn.conf1 # NaN /\ fn.conf1 >= 20 /\ fn.conf1 <= 100
               /\ fn.conf2 # NaN /\ fn.conf2 >= 20 /\ fn.conf2 <= 100

----------------------------------------------------------------------------
(* The confidence of two histories side by side *)

ConfGaps == {0, 1 * Minute, 5 * Minute, 9 * Minute}

\* histories of 2 to MaxConfGaps gaps, and histories of 6 gaps, one more than
\* the window of calculateConfidence
ConfHistories ==
  {FromGaps(gs) : gs \in UNION {[1..n -> ConfGaps] : n \in 2..MaxConfGaps}}
    \cup {FromGaps(<<9 * Minute>> \o gs) : gs \in [1..5 -> {1 * Minute, 9 * Minute}]}

PairInit ==
  /\ now = StartTime
  /\ hook = "pair"
  /\ ev = "init"
  /\ sp = SP_Initial
  /\ ip = IP_Initial
  /\ cgm = CGM_Initial
  /\ lm = LM_Initial
  /\ cd = CD_Initial
  /\ fn \in {[stage |-> "input", a |-> x, b |-> y,
              confA |-> Null, confB |-> Null, conf2A |-> Null, conf2B |-> Null] :
               x \in ConfHistories, y \in ConfHistories}

\* predictNextReading on both histories
PairScore ==
  /\ fn.stage = "input"
  /\ fn' = [fn EXCEPT !.stage = "scored",
                      !.confA = predictConfidence(fn.a),
                      !.confB = predictConfidence(fn.b),
                      !.conf2A = predictConfidence2(fn.a),
                      !.conf2B = predictConfidence2(fn.b)]
  /\ UNCHANGED <<now, hook, ev, sp, ip, cgm, lm, cd>>

PairNext == PairScore

SpecPair == PairInit /\ [][PairNext]_vars

\* the gaps the interval estimator keeps: the 3 to 8 minute gaps among the w
\* newest
FilteredRecent(readings, w) ==
  LET all == GapsOf(readings)
  IN SelectSeq(SubSeq(all, 1, Min(w, Len(all))),
               LAMBDA g : g >= 3 * Minute /\ g <= 8 * Minute)

\* C15: two histories (of at least 3 samples, each with a numeric confidence)
\* with the same filtered recent gaps, those the interval estimator uses, get
\* the same confidence: a gap outside the band of 3 to 8 minutes does not
\* change it.
C15_ConfidenceOverFilteredGaps ==
  (/\ fn.stage = "scored" /\ Len(fn.a) >= 3 /\ Len(fn.b) >= 3
   /\ fn.confA # NaN /\ fn.confB # NaN
   /\ FilteredRecent(fn.a, 5) = FilteredRecent(fn.b, 5)
   /\ FilteredRecent(fn.a, 10) = FilteredRecent(fn.b, 10))
     => fn.confA = fn.confB /\ fn.conf2A = fn.conf2B

\* the 5 newest gaps, which calculateConfidence analyses, in minutes
Analysed(readings) ==
  LET all == GapsOf(readings)
  IN [i \in 1..Min(5, Len(all)) |-> all[i] \div Minute]

SumOfSquares(g) == SumSeq([i \in 1..Len(g) |-> g[i] * g[i]])

\* k^2 times the variance of the k gaps g
ScaledVariance(g) == Len(g) * SumOfSquares(g) - SumSeq(g) * SumSeq(g)

SameMean(g, h) == SumSeq(g) * Len(h) = SumSeq(h) * Len(g)

LowerVariance(g, h) ==
  ScaledVariance(g) * Len(h) * Len(h) < ScaledVariance(h) * Len(g) * Len(g)

\* C16: of two histories of at least 3 samples whose analysed gaps have the
\* same mean, the one with the lower variance has a confidence not less than
\* the other's.
C16_LowerVarianceNotLessConfident ==
  (/\ fn.stage = "scored" /\ Len(fn.a) >= 3 /\ Len(fn.b) >= 3
   /\ SameMean(Analysed(fn.a), Analysed(fn.b))
   /\ LowerVariance(Analysed(fn.a), Analysed(fn.b)))
     => fn.confA >= fn.confB /\ fn.conf2A >= fn.conf2B

\* gaps 5, 5 against gaps 1, 9: the same mean, the regular history is surer
C16_Witness ==
  /\ fn.stage = "scored"
  /\ fn.a = <<0, 5 * Minute, 10 * Minute>> /\ fn.b = <<0, 1 * Minute, 10 * Minute>>
  /\ fn.confA = 100 /\ fn.confB = 20

----------------------------------------------------------------------------
(* Claims about the polling strategy, checked under SpecFn *)

FixedNormal(strategy) ==
  strategy.mode = "normal" /\ strategy.nextInterval = 5 * Minute

\* C17: when the history is empty (no predicted time, confidence 0) or the
\* confidence of the prediction is below 0.3, the strategy is the normal mode
\* with the fixed interval of 5 minutes, never the intensive 45 seconds,
\* however close to now the predicted time is.
C17_LowConfidenceFallsBack ==
  (/\ fn.stage = "predicted"
   /\ \/ Len(fn.readings) = 0 /\ fn.pred1 = Null /\ fn.conf1 = 0
      \/ fn.conf1 # NaN /\ fn.conf1 < 30)
     => FixedNormal(fn.strat1) /\ FixedNormal(fn.strat2)

\* a confidence under 0.3 with the predicted time exactly now
C17_Witness ==
  /\ Predicted
  /\ fn.conf1 # NaN /\ fn.conf1 < 30
  /\ fn.pred1 = fn.at
  /\ FixedNormal(fn.strat1) /\ FixedNormal(fn.strat2)

----------------------------------------------------------------------------
(* Claims about stopping and the countdown, checked under Spec *)

\* a hook state without its two timer handles
WithoutHandles(s) == [f \in (DOMAIN s) \ {"timeoutRef", "intervalRef", "countdownRef"} |-> s[f]]

\* clearing s gives c: c has no timer left, clearing c again gives c, and when
\* s has no timer pending c is s (up to the handle of a timer that has already
\* fired, which is forgotten; with no handle held, c is s exactly)
StopIsIdempotent(s, c, cc, pending, left, handles) ==
  /\ cc = c
  /\ left = {}
  /\ pending = {} => WithoutHandles(c) = WithoutHandles(s)
  /\ (pending = {} /\ handles = {Null}) => c = s

\* C18: Stop is idempotent in the three hooks: clearing the timers when no timer
\* is pending changes nothing, clearing twice in a row leaves the same state as
\* clearing once, and after clearing no primary and no countdown timer is
\* pending.
C18_StopIsIdempotent ==
  /\ hook = "SP" =>
       StopIsIdempotent(sp, SP_clearTimers(sp), SP_clearTimers(SP_clearTimers(sp)),
                        sp.timeouts \cup sp.intervals,
                        SP_clearTimers(sp).timeouts \cup SP_clearTimers(sp).intervals,
                        {sp.timeoutRef, sp.countdownRef})
  /\ hook = "IP" =>
       StopIsIdempotent(ip, IP_clearTimers(ip), IP_clearTimers(IP_clearTimers(ip)),
                        ip.timeouts \cup ip.intervals,
                        IP_clearTimers(ip).timeouts \cup IP_clearTimers(ip).intervals,
                        {ip.timeoutRef, ip.countdownRef})
  /\ hook = "LM" =>
       StopIsIdempotent(lm, LM_clearTimers(lm), LM_clearTimers(LM_clearTimers(lm)),
                        lm.intervals, LM_clearTimers(lm).intervals,
                        {lm.intervalRef, lm.countdownRef})

\* live mode has just been switched off in a mounted useIntelligentPolling: the
\* cleanup of the live effect cleared the timers and its body cleared them again
C18_Witness ==
  /\ hook = "IP" /\ ev = "toggle" /\ ip.mounted /\ ~ip.isLiveMode
  /\ ip.timeouts = {} /\ ip.intervals = {}
  /\ IP_clearTimers(ip) = ip

\* the fields of a useSmartPolling / useIntelligentPolling state a countdown
\* tick may change: the displayed remaining time, the countdown timer itself
\* and its handle
TickFrame(s) == [f \in (DOMAIN s) \ {"timeUntilNext", "intervals", "countdownRef"} |-> s[f]]

\* C19: a one-second countdown tick changes only the displayed remaining time
\* (and the countdown's own handle, when the remaining time reaches zero); the
\* primary timer is neither cleared nor re-armed nor postponed and the next
\* expected arrival stays as it was.
C19_TickOnlyCountsDown ==
  [][ev' = "tick" =>
       /\ Primary' = Primary
       /\ NextExpected' = NextExpected
       /\ hook = "SP" =>
            /\ TickFrame(sp') = TickFrame(sp)
            /\ sp'.timeUntilNext = Max(0, sp.timeUntilNext - Second)
            /\ sp'.countdownRef # sp.countdownRef =>
                 sp'.timeUntilNext = 0 /\ sp'.countdownRef = Null
       /\ hook = "IP" =>
            /\ TickFrame(ip') = TickFrame(ip)
            /\ ip'.timeUntilNext = Max(0, ip.timeUntilNext - Second)
            /\ ip'.countdownRef = ip.countdownRef
       /\ hook = "LM" =>
            /\ TickFrame(lm') = TickFrame(lm)
            /\ {t \in lm'.intervals : t.kind = "update"}
                 = {t \in lm.intervals : t.kind = "update"}
            /\ lm'.countdownRef = lm.countdownRef]_vars

\* a tick of useSmartPolling that reached zero and dropped the countdown's
\* handle while the primary timer is still pending
C19_Witness ==
  /\ hook = "SP" /\ ev = "tick"
  /\ sp.timeUntilNext = 0 /\ sp.countdownRef = Null /\ sp.intervals = {}
  /\ sp.timeouts # {} /\ sp.timeoutRef # Null

\* corrected is candidate moved forward by the fewest whole intervals that
\* bring it to now or later
MovedByFewestIntervals(candidate, interval, n, corrected) ==
  /\ corrected > candidate
  /\ (corrected - candidate) % interval = 0
  /\ corrected >= n
  /\ corrected - interval <= n

\* C20: when the candidate arrival (latest reading plus the estimated interval)
\* is already past, the hooks move it forward by a whole number k >= 1 of
\* estimated intervals, the fewest needed: the corrected time is not before now
\* and one interval less is not after now.  Looked at right after the hook was
\* given its history (no current reading), where the next expected arrival is
\* the corrected time.
C20_CorrectedByFewestIntervals ==
  /\ (/\ hook = "SP" /\ ev = "mount"
      /\ sp.historicalData # <<>> /\ sp.currentReading = Null
      /\ Latest(sp.historicalData) + sp.estimatedInterval < now)
       => MovedByFewestIntervals(Latest(sp.historicalData) + sp.estimatedInterval,
                                 sp.estimatedInterval, now, sp.nextExpectedRef)
  /\ (/\ hook = "IP" /\ ev \in {"mount", "hist"}
      /\ ip.historicalData # <<>> /\ ip.currentReading = Null
      /\ Latest(ip.historicalData) + ip.estimatedInterval < now)
       => MovedByFewestIntervals(Latest(ip.historicalData) + ip.estimatedInterval,
                                 ip.estimatedInterval, now, ip.nextExpectedReading)

----------------------------------------------------------------------------
(* More claims about the estimators and the strategy, checked under SpecFn *)

DefaultOrWithin(v, default, lo, hi) == v > 0 /\ (v = default \/ (v >= lo /\ v <= hi))

\* C21: for every history each interval estimate is the default of 5 minutes or
\* a value inside the band of its implementation (3-8 minutes for both versions
\* of the analyzer, 4-6 minutes for useSmartPolling, 2-10 minutes for
\* useIntelligentPolling); a gap of zero, a negative gap or a gap outside the
\* band never becomes the estimate, so the estimate is strictly positive.
C21_EstimateDefaultOrInBand ==
  fn.stage = "estimated" =>
     /\ DefaultOrWithin(fn.avg1, DEFAULT_CGM_INTERVAL, 3 * Minute, 8 * Minute)
     /\ DefaultOrWithin(fn.avg2, DEFAULT_CGM_INTERVAL, 3 * Minute, 8 * Minute)
     /\ DefaultOrWithin(fn.spIv, fallbackIntervalMs, 4 * Minute, 6 * Minute)
     /\ DefaultOrWithin(fn.ipIv, fallbackIntervalMs, 2 * Minute, 10 * Minute)

\* a history with a duplicate timestamp (gap 0), a gap of 9 minutes and a gap of
\* 3 minutes: the analyzer takes the 3, useSmartPolling falls back to the
\* default, useIntelligentPolling takes the median of 3 and 9
C21_Witness ==
  /\ fn.stage = "estimated" /\ Len(fn.readings) = 4
  /\ {GapsOf(fn.readings)[j] : j \in 1..3} = {0, 3 * Minute, 9 * Minute}
  /\ fn.avg1 = 3 * Minute /\ fn.avg2 = 3 * Minute
  /\ fn.spIv = 5 * Minute
  /\ fn.ipIv = 6 * Minute

\* the strategy the rule of C22 asks for: intensive with 45 seconds when there
\* is a predicted time, the confidence is at least 0.3 and the predicted time
\* is within 2 minutes of now on either side; normal with 5 minutes otherwise
StatedStrategy(time, conf, n) ==
  IF time # Null /\ conf >= 30 /\ Abs(time - n) <= 2 * Minute
  THEN [mode |-> "intensive", nextInterval |-> 45 * Second]
  ELSE [mode |-> "normal", nextInterval |-> 5 * Minute]

Follows(strategy, stated) ==
  strategy.mode = stated.mode /\ strategy.nextInterval = stated.nextInterval

\* C22: getPollingStrategy returns the intensive mode with the interval of 45
\* seconds exactly when a prediction exists, its confidence is at least 0.3 and
\* the predicted time is within 2 minutes of now on either side, a predicted
\* time equal to now included, and the normal mode with 5 minutes in every
\* other case; both versions of the analyzer follow this rule.  (Histories whose
\* confidence is not a number are left to C14.)
C22_IntensiveExactlyWhenNear ==
  (fn.stage = "predicted" /\ fn.conf1 # NaN /\ fn.conf2 # NaN) =>
     /\ Follows(fn.strat1, StatedStrategy(fn.pred1, fn.conf1, fn.at))
     /\ Follows(fn.strat2, StatedStrategy(fn.pred2, fn.conf2, fn.at))

----------------------------------------------------------------------------
(* More claims about the hooks, checked under Spec *)

\* live mode is being switched on in useIntelligentPolling while the next
\* expected reading is already past: the live effect calls scheduleNextUpdate
\* with it
IP_ScheduledWithPastReading ==
  /\ hook = "IP" /\ ev' = "toggle"
  /\ ip.mounted /\ ~ip.isLiveMode /\ ip'.isLiveMode
  /\ ip.nextExpectedReading # Null /\ ip.nextExpectedReading < now

\* C23: when scheduleNextUpdate of useIntelligentPolling runs in live mode with
\* a next expected reading that is already past, onUpdate is invoked at once
\* (the last update is now), the next expected reading is moved forward by
\* whole intervals to a time after now, and no timer is armed for the past
\* reading.
C23_PastReadingUpdatesAtOnce ==
  [][IP_ScheduledWithPastReading =>
       /\ ip'.lastUpdate = now
       /\ ip'.nextExpectedReading > now
       /\ (ip'.nextExpectedReading - ip.nextExpectedReading) % ip.estimatedInterval = 0
       /\ \A t \in ip'.timeouts : t.target > now]_vars

----------------------------------------------------------------------------
(* The retried API requests: retryRequest (services/api.ts 30-56),           *)
(* ApiClient.executeWithRetry (types/pump.ts 347-400) and BaseApiClient.get   *)
(* (unnamed/part_013 56-69).  One call is followed attempt by attempt: fn      *)
(* holds the client, its configured limit, the outcome of every attempt made  *)
(* (log), every delay slept (delays) and what the call returned or threw.     *)

Clients == {"retryRequest", "executeWithRetry", "get"}

\* the HTTP status of a response; Null when the request got no response
OkStatus == 200
ErrorStatuses == {Null, 400, 404, 408, 429, 499, 500, 503}

\* defaultRetryConfig.retryCondition of services/api.ts
retryCondition(status) == status = Null \/ status >= 500

\* mutation of shouldNotRetry: every failure is retried
alwaysRetry(status) == FALSE

\* ApiClient.shouldNotRetry
shouldNotRetry(status) ==
  IF status = Null THEN FALSE
  ELSE IF status >= 400 /\ status < 500 THEN status \notin {408, 429}
       ELSE FALSE

\* the code ApiClient.enhanceError gives the error
enhancedCode(status) ==
  CASE status = Null -> "NETWORK_ERROR"
    [] status = 401 -> "UNAUTHORIZED"
    [] status = 403 -> "FORBIDDEN"
    [] status = 404 -> "NOT_FOUND"
    [] status = 429 -> "RATE_LIMITED"
    [] status = 500 -> "SERVER_ERROR"
    [] status \in {502, 503, 504} -> "SERVICE_UNAVAILABLE"
    [] OTHER -> "HTTP"

\* the error a failed attempt k leaves in the hands of the retry loop: the
\* AxiosError as it is (retryRequest, executeWithRetry), or the ApiError the
\* response interceptor of BaseApiClient made of it (status 500 when there was
\* no response)
AttemptError(client, status, k) ==
  IF client = "get"
  THEN [attempt |-> k, status |-> IF status = Null THEN 500 ELSE status, code |-> "ApiError"]
  ELSE [attempt |-> k, status |-> status, code |-> "AxiosError"]

\* what the call throws for the last error
Thrown(client, error) ==
  IF client = "executeWithRetry"
  THEN [error EXCEPT !.code = enhancedCode(error.status)]
  ELSE error

\* the number of the last attempt the loop can make: maxRetries + 1 (attempt =
\* 0..maxRetries), retryConfig.attempts = retryAttempts || 3, retries + 1
lastAttempt(client, limit) ==
  CASE client = "retryRequest" -> limit + 1
    [] client = "executeWithRetry" -> IF limit = 0 THEN 3 ELSE limit
    [] OTHER -> limit + 1

\* the delay before the attempt after the failed attempt k
retryDelayAfter(client, k) ==
  CASE client = "retryRequest" -> 1000 * k
    [] client = "executeWithRetry" -> 1000 * 2^(k - 1)
    [] OTHER -> 1000

\* mutation of givesUp: a failure never ends the call
neverGivesUp(client, limit, status, k) == FALSE

\* whether the failure of attempt k ends the call
givesUp(client, limit, status, k) ==
  CASE client = "retryRequest" ->
         IF k = lastAttempt(client, limit) THEN TRUE ELSE ~retryCondition(status)
    [] client = "executeWithRetry" ->
         IF shouldNotRetry(status) THEN TRUE ELSE k = lastAttempt(client, limit)
    [] OTHER -> ~(limit - (k - 1) > 0)

RetryInit ==
  /\ now = StartTime
  /\ hook = "retry"
  /\ ev = "init"
  /\ sp = SP_Initial
  /\ ip = IP_Initial
  /\ cgm = CGM_Initial
  /\ lm = LM_Initial
  /\ cd = CD_Initial
  /\ fn \in {[stage |-> "calling", client |-> c, limit |-> l, log |-> <<>>,
              delays |-> <<>>, result |-> Null, error |-> Null] :
               c \in Clients, l \in 0..MaxRetryLimit}

\* one attempt: await requestFn() and the try/catch around it
RetryAttempt(status) ==
  /\ hook = "retry" /\ fn.stage = "calling"
  /\ LET k == Len(fn.log) + 1
     IN fn' = IF status = OkStatus
              THEN [fn EXCEPT !.stage = "returned", !.log = Append(@, status),
                              !.result = [data |-> k]]
              ELSE IF givesUp(fn.client, fn.limit, status, k)
                   THEN [fn EXCEPT !.stage = "thrown", !.log = Append(@, status),
                                   !.error = Thrown(fn.client,
                                                    AttemptError(fn.client, status, k))]
                   ELSE [fn EXCEPT !.stage = "sleeping", !.log = Append(@, status),
                                   !.delays = Append(@, retryDelayAfter(fn.client, k))]
  /\ UNCHANGED <<now, hook, ev, sp, ip, cgm, lm, cd>>

\* the delay is over: the next pass of the loop (the recursive call of get)
RetryWake ==
  /\ hook = "retry" /\ fn.stage = "sleeping"
  /\ fn' = [fn EXCEPT !.stage = "calling"]
  /\ UNCHANGED <<now, hook, ev, sp, ip, cgm, lm, cd>>

RetryNext ==
  \/ \E status \in ErrorStatuses \cup {OkStatus} : RetryAttempt(status)
  \/ RetryWake

SpecRetry == RetryInit /\ [][RetryNext]_vars

\* the bound C24 states for the attempts of a call
StatedAttempts(client, limit) ==
  IF client = "executeWithRetry" THEN limit ELSE limit + 1

\* the call makes at most bound attempts, makes none after a success, returns
\* the data of its first successful attempt, and throws the error of its last
\* attempt when every attempt has failed
RetriesWithin(bound) ==
  /\ Len(fn.log) <= bound
  /\ fn.stage \in {"calling", "sleeping"} => Len(fn.log) < bound
  /\ \A i \in 1..Len(fn.log) :
       fn.log[i] = OkStatus => i = Len(fn.log) /\ fn.stage = "returned"
  /\ fn.stage = "returned" =>
       fn.log[Len(fn.log)] = OkStatus /\ fn.result = [data |-> Len(fn.log)]
  /\ fn.stage = "thrown" =>
       /\ \A i \in 1..Len(fn.log) : fn.log[i] # OkStatus
       /\ fn.error.attempt = Len(fn.log)
       /\ fn.error.status = IF fn.client = "get" /\ fn.log[Len(fn.log)] = Null
                            THEN 500 ELSE fn.log[Len(fn.log)]

\* C24 as stated: a retried request ends after at most maxRetries + 1
\* (retryRequest), retryAttempts (executeWithRetry), retries + 1 (get) attempts,
\* returns the data of the first successful attempt without a further attempt,
\* and throws the error of the last attempt when every attempt failed.
C24_BoundedRetries ==
  hook = "retry" => RetriesWithin(StatedAttempts(fn.client, fn.limit))

\* C24 as the code has it: the same, but the attempts of executeWithRetry are
\* bounded by retryConfig.attempts, which is retryAttempts or, when that is 0
\* (or not given), 3.
C24_BoundedByConfiguredAttempts ==
  hook = "retry" => RetriesWithin(lastAttempt(fn.client, fn.limit))

\* executeWithRetry configured with 2 attempts failed twice with a retryable
\* error and threw the second one
C24_Witness ==
  /\ hook = "retry" /\ fn.client = "executeWithRetry" /\ fn.limit = 2
  /\ fn.stage = "thrown" /\ fn.log = <<503, Null>>
  /\ fn.error.attempt = 2 /\ fn.error.code = "NETWORK_ERROR"

\* an HTTP 4xx status other than 408 and 429
ClientError(status) ==
  status # Null /\ status >= 400 /\ status <= 499 /\ status \notin {408, 429}

\* C25: in ApiClient.executeWithRetry a failure with an HTTP 4xx status other
\* than 408 and 429 ends the call at once: its error is thrown and no delay
\* follows it.  A failure with no response, a 5xx status, 408 or 429 is
\* followed by a delay that doubles with every retry (1 s, 2 s, ...) and another
\* attempt, until the attempt limit is reached, where its error is thrown.
C25_ClientErrorsAreNotRetried ==
  (hook = "retry" /\ fn.client = "executeWithRetry") =>
     \A i \in 1..Len(fn.log) :
        IF fn.log[i] = OkStatus THEN TRUE
        ELSE IF ClientError(fn.log[i]) \/ i = lastAttempt(fn.client, fn.limit)
             THEN /\ i = Len(fn.log) /\ fn.stage = "thrown"
                  /\ fn.error.attempt = i
                  /\ Len(fn.delays) = i - 1
             ELSE /\ Len(fn.delays) >= i
                  /\ fn.delays[i] = IF i = 1 THEN 1000 ELSE 2 * fn.delays[i - 1]
                  /\ i < Len(fn.log) \/ fn.stage \in {"sleeping", "calling"}

\* a 503 was retried after 1 s, the 404 of the second attempt of 3 was thrown
\* at once
C25_Witness ==
  /\ hook = "retry" /\ fn.client = "executeWithRetry" /\ fn.limit = 3
  /\ fn.log = <<503, 404>> /\ fn.delays = <<1000>>
  /\ fn.stage = "thrown" /\ fn.error.attempt = 2 /\ fn.error.code = "NOT_FOUND"

----------------------------------------------------------------------------
(* useCGMData(initialTimeRange) (unnamed/part_003, lines 399-490): current   *)
(* reading and historical data of a time range.  Its abortControllerRef is   *)
(* created with null and assigned nowhere, so refreshHistorical and the      *)
(* unmount cleanup abort nothing.                                            *)

TimeRanges == {"3h", "24h"}

NoHistory == [stored |-> FALSE, range |-> "24h", superseded |-> FALSE, overtaken |-> FALSE]

\* useState initial values, lines 400-416, before the hook is mounted
HD_Initial ==
  [mounted |-> FALSE, timeRange |-> "24h", historicalData |-> NoHistory,
   currentReading |-> FALSE, loadingCurrent |-> FALSE, loadingHistorical |-> FALSE,
   errorCurrent |-> FALSE, errorHistorical |-> FALSE,
   pending |-> <<>>, currentPending |-> 0]

\* refreshCurrent up to its await, lines 427-431
HD_currentStart(s) ==
  [s EXCEPT !.loadingCurrent = TRUE, !.errorCurrent = FALSE, !.currentPending = @ + 1]

\* refreshHistorical up to its await, lines 442-451, for the time range it
\* closed over
HD_historicalStart(s0, range) ==
  With(s0, LAMBDA s :
    [s EXCEPT !.loadingHistorical = TRUE,
              !.errorHistorical = FALSE,
              !.pending =
                Append([i \in 1..Len(s.pending) |->
                          [s.pending[i] EXCEPT !.superseded = TRUE]],
                       [range |-> range, superseded |-> FALSE, overtaken |-> FALSE])])

\* the effect of lines 466-469
HD_fetchEffect(s) == HD_historicalStart(HD_currentStart(s), s.timeRange)

HD_Mount(range) ==
  /\ hook = "HD" /\ cd = HD_Initial
  /\ cd' = HD_fetchEffect([HD_Initial EXCEPT !.mounted = TRUE, !.timeRange = range])
  /\ ev' = "mount"
  /\ UNCHANGED <<now, hook, sp, ip, cgm, fn, lm>>

\* setTimeRange: a new range rebuilds refreshHistorical and re-runs the effect
HD_setTimeRange(range) ==
  /\ hook = "HD" /\ cd.mounted
  /\ range # cd.timeRange
  /\ Len(cd.pending) < MaxInFlight /\ cd.currentPending < MaxInFlight
  /\ cd' = HD_fetchEffect([cd EXCEPT !.timeRange = range])
  /\ ev' = "range"
  /\ UNCHANGED <<now, hook, sp, ip, cgm, fn, lm>>

HD_refreshCurrent ==
  /\ hook = "HD" /\ cd.mounted
  /\ cd.currentPending < MaxInFlight
  /\ cd' = HD_currentStart(cd)
  /\ ev' = "refreshCurrent"
  /\ UNCHANGED <<now, hook, sp, ip, cgm, fn, lm>>

HD_refreshHistorical ==
  /\ hook = "HD" /\ cd.mounted
  /\ Len(cd.pending) < MaxInFlight
  /\ cd' = HD_historicalStart(cd, cd.timeRange)
  /\ ev' = "refresh"
  /\ UNCHANGED <<now, hook, sp, ip, cgm, fn, lm>>

\* refreshCurrent after its await, lines 433-441
HD_CurrentDone(ok) ==
  /\ hook = "HD"
  /\ cd.currentPending > 0
  /\ cd' = IF cd.mounted
           THEN [cd EXCEPT !.currentPending = @ - 1,
                           !.currentReading = @ \/ ok,
                           !.errorCurrent = IF ok THEN @ ELSE TRUE,
                           !.loadingCurrent = FALSE]
           ELSE [cd EXCEPT !.currentPending = @ - 1]
  /\ ev' = IF ok THEN "currentDone" ELSE "currentFail"
  /\ UNCHANGED <<now, hook, sp, ip, cgm, fn, lm>>

\* refreshHistorical after its await, lines 452-462, for the i-th pending call
HD_HistoricalDone(i, ok) ==
  /\ hook = "HD"
  /\ i \in 1..Len(cd.pending)
  /\ cd' = IF cd.mounted
           THEN [cd EXCEPT !.pending = CD_others(cd.pending, i, ok),
                           !.historicalData =
                              IF ok THEN [stored |-> TRUE,
                                          range |-> cd.pending[i].range,
                                          superseded |-> cd.pending[i].superseded,
                                          overtaken |-> cd.pending[i].overtaken]
                              ELSE @,
                           !.errorHistorical = IF ok THEN @ ELSE TRUE,
                           !.loadingHistorical = FALSE]
           ELSE [cd EXCEPT !.pending = CD_others(cd.pending, i, FALSE)]
  /\ ev' = IF ok THEN "done" ELSE "fail"
  /\ UNCHANGED <<now, hook, sp, ip, cgm, fn, lm>>

\* the unmount cleanup of lines 472-478: abortControllerRef holds null
HD_Unmount ==
  /\ hook = "HD" /\ cd.mounted
  /\ cd' = [cd EXCEPT !.mounted = FALSE]
  /\ ev' = "unmount"
  /\ UNCHANGED <<now, hook, sp, ip, cgm, fn, lm>>

----------------------------------------------------------------------------
(* The data hooks as one specification; the fair one lets time pass, due     *)
(* timers fire and pending requests settle.                                  *)

DataInit ==
  /\ now = StartTime
  /\ hook \in {"CD", "HD"}
  /\ ev = "init"
  /\ sp = SP_Initial
  /\ ip = IP_Initial
  /\ cgm = CGM_Initial
  /\ lm = LM_Initial
  /\ fn = FnIdle
  /\ cd = IF hook = "CD" THEN CD_Initial ELSE HD_Initial

CD_Settles == \E i \in 1..MaxInFlight : \E ok \in BOOLEAN : CD_FetchDone(i, ok)

DataNext ==
  \/ \E iv \in CD_Intervals : \E fresh, fetchOnMount \in BOOLEAN :
       CD_Mount(iv, fresh, fetchOnMount)
  \/ CD_refresh
  \/ CD_Settles
  \/ CD_clearError
  \/ \E iv \in CD_Intervals : CD_setRefreshInterval(iv)
  \/ CD_HoursChange
  \/ CD_RefreshFire
  \/ CD_CountdownTick
  \/ CD_TimePasses
  \/ CD_Unmount
  \/ \E range \in TimeRanges : HD_Mount(range)
  \/ \E range \in TimeRanges : HD_setTimeRange(range)
  \/ HD_refreshCurrent
  \/ HD_refreshHistorical
  \/ \E ok \in BOOLEAN : HD_CurrentDone(ok)
  \/ \E i \in 1..MaxInFlight : \E ok \in BOOLEAN : HD_HistoricalDone(i, ok)
  \/ HD_Unmount

SpecData == DataInit /\ [][DataNext]_vars

SpecDataFair ==
  /\ SpecData
  /\ WF_vars(CD_TimePasses)
  /\ WF_vars(CD_CountdownTick)
  /\ WF_vars(CD_RefreshFire)
  /\ WF_vars(CD_Settles)

----------------------------------------------------------------------------
(* Claims about useCGMData (hooks/useCGMData.ts), checked under Spec *)

\* C27: in useCGMData, whatever the interleaving of overlapping fetches (initial
\* fetch, timer-driven refresh, manual refresh) and clearError, when no fetch is
\* in flight the loading state is 'error' exactly when an error is stored; in
\* particular loading 'success' with a stored error does not occur.
C27_LoadingAgreesWithError ==
  (hook = "CGM" /\ cgm.mounted /\ cgm.inFlight = 0) =>
     /\ (cgm.loading = "error") <=> cgm.error
     /\ ~(cgm.loading = "success" /\ cgm.error)

----------------------------------------------------------------------------
(* Claims about the exposed schedule of useSmartPolling, checked under Spec *)

\* the primary timers of useSmartPolling that are pending: the timer the hook
\* holds in timeoutRef, while it has not fired
SP_PendingPrimary == {t \in sp.timeouts : t.id = sp.timeoutRef}

\* C28: in useSmartPolling, whenever a primary timer is pending, the exposed
\* nextExpectedReading is the arrival time the timer was armed for: the timer is
\* due at nextExpectedReading plus the 30 s buffer, also after a staleness
\* correction and after new data.
C28_ExposedTimeIsTimerTarget ==
  (hook = "SP" /\ sp.mounted) =>
    \A t \in SP_PendingPrimary :
      /\ sp.nextExpectedReading = t.target
      /\ t.due = sp.nextExpectedReading + BufferMs

----------------------------------------------------------------------------
(* Claims about the data hooks of unnamed/part_003, checked under SpecData  *)
(* and SpecDataFair                                                         *)

\* the data state of the hook: data of useCGMData(options), historicalData of
\* useCGMData(initialTimeRange)
StoredData == IF hook = "CD" THEN cd.data ELSE cd.historicalData

\* C26: when fetchData (or refreshHistorical) is called while an earlier call is
\* pending, the earlier call is cancelled: its response is never written into
\* the data state once the later call has started, so the stored data comes from
\* the most recently started call that has completed.
C26_EarlierResponseNeverStored ==
  (hook \in {"CD", "HD"} /\ cd.mounted) =>
     ~StoredData.superseded /\ ~StoredData.overtaken

\* the refresh timer cannot be expected to fire: the hook is gone, auto-refresh
\* is off, or the caller has just called one of the hook's functions or changed
\* an option
CD_CallerActs ==
  IF hook = "CD"
  THEN IF cd.mounted
       THEN cd.currentRefreshInterval = 0 \/ ev \in {"refresh", "clear", "interval", "hours"}
       ELSE TRUE
  ELSE TRUE

\* the refresh timer of a mounted hook whose auto-refresh is on; fresh tells
\* whether the callbacks are built in every render
CD_AutoRefreshing(fresh) ==
  IF hook = "CD"
  THEN cd.mounted /\ cd.fresh = fresh /\ cd.currentRefreshInterval > 0
  ELSE FALSE

\* C29: in useCGMChart (callbacks built in every render, refresh interval above
\* zero) the auto-refresh timer eventually fires and the data is fetched again:
\* the renders the one-second countdown causes do not postpone it for ever.
C29_RefreshEventuallyFires ==
  CD_AutoRefreshing(TRUE) ~> (ev = "refreshFire" \/ CD_CallerActs)

\* the same with callbacks that stay the same function from render to render
StableCallbacksRefresh ==
  CD_AutoRefreshing(FALSE) ~> (ev = "refreshFire" \/ CD_CallerActs)

====
